---- MODULE Spec2Model ----
(***************************************************************************)
(* Golf scramble scoring: the scorecard OCR-text interpreters              *)
(* (src/src/lib/ocr.ts and its bounding-box variant src/unnamed/part_004), *)
(* the scoring engine and the ranking engine                               *)
(* (src/src/lib/rankingHelper.ts).                                         *)
(*                                                                         *)
(* The engines are pure functions.  Each is an operator computed the way   *)
(* the code computes it; a specification draws the function's input from a *)
(* bounded set in its initial state and one action applies the function    *)
(* and stores what it returned.                                            *)
(***************************************************************************)
EXTENDS Integers, Sequences, FiniteSets, TLC

VARIABLES
    lines,          \* ocr.ts parseScorecard: the trimmed non-empty lines of the text
    annotations,    \* part_004: the OCR provider's tokens with their bounding boxes
    ocrVariant,     \* which interpreter produced ocrResult
    detectedHoles,  \* the hole count the detector returned to the interpreter
    ocrResult,      \* the OCRResult an interpreter returned
    teamData,       \* the TeamData handed to calculateTeamScore
    scoringResult,  \* the ScoringResult it returned
    teams,          \* the teams handed to rankTeams
    rankings,       \* the {id, rank} entries rankTeams returned
    tieResult,      \* breakTie(teams[i], teams[j]) for every i, j
    holeArgs,       \* the arguments of a call of a per-hole scoring function
    holeResult,     \* the number it returned
    batch,          \* OrganizerUpload: uploadedCards, the loop index and the counters
    callLog,        \* the calls processUploadedScorecard made and the errors it rethrew
    allTeams,       \* the stored Team records, the items of useEntity(teamEntityConfig)
    nameArgs,       \* the raw name handed to a name cleanup and which cleanup it is
    nameResult,     \* what the cleanup returned, and what it returned for that again
    pc              \* "ready" before the call, then the name of what was called

ocrVars   == <<lines, annotations, ocrVariant, detectedHoles, ocrResult>>
scoreVars == <<teamData, scoringResult>>
rankVars  == <<teams, rankings, tieResult>>
holeVars  == <<holeArgs, holeResult>>
uploadVars == <<batch, callLog, allTeams>>
nameVars  == <<nameArgs, nameResult>>
vars      == <<lines, annotations, ocrVariant, detectedHoles, ocrResult, teamData, scoringResult,
               teams, rankings, tieResult, holeArgs, holeResult, batch, callLog, allTeams,
               nameArgs, nameResult, pc>>

----------------------------------------------------------------------------
(* Helpers for JavaScript values *)

\* An optional number (netScore?: number) is <<>> when undefined, <<n>> otherwise.
Undefined == << >>

Some(n) == <<n>>

\* (x || 0): undefined and 0 are falsy.
OrZero(x) == IF x = Undefined THEN 0 ELSE x[1]

RECURSIVE SumSeq(_)
\* Array.prototype.reduce((acc, x) => acc + x, 0)
SumSeq(s) == IF s = << >> THEN 0 ELSE s[1] + SumSeq(Tail(s))

----------------------------------------------------------------------------
(* Scoring engine: src/src/lib/rankingHelper.ts *)

STROKE_INDEX_18 == <<10, 4, 14, 2, 16, 8, 12, 6, 18, 11, 1, 15, 7, 17, 5, 13, 3, 9>>

\* Math.round(sum * 0.1) truncated instead of rounded.
calculateTeamHandicapFloor(playerHandicaps) == SumSeq(playerHandicaps) \div 10

\* Math.round(sum * 0.1).  For every integer sum >= 0 the double sum * 0.1 is
\* the exact tenth or lies a fraction of an ulp above it, and Math.round
\* rounds halves towards +Infinity, so the result is floor((sum + 5) / 10).
calculateTeamHandicap(playerHandicaps) == (SumSeq(playerHandicaps) + 5) \div 10

calculateGrossTotal(holeScores) == SumSeq(holeScores)

\* A result that stands for the TypeError thrown by players[0].holeScores
\* when the team has no player.
ThrownResult ==
    [threw |-> TRUE, grossTotal |-> 0, teamHandicap |-> 0,
     netScore |-> Undefined, pointsTotal |-> Undefined, breakdown |-> << >>]

\* The gross total taken over every player's scores instead of the first's.
calculateStraightScrambleAllPlayers(td) ==
    LET teamHandicap == calculateTeamHandicap([i \in 1..Len(td.players) |-> td.players[i].handicap])
        grossTotal   == SumSeq([i \in 1..Len(td.players) |-> calculateGrossTotal(td.players[i].holeScores)])
    IN  [threw |-> FALSE, grossTotal |-> grossTotal, teamHandicap |-> teamHandicap,
         netScore |-> Some(grossTotal - teamHandicap), pointsTotal |-> Undefined,
         breakdown |-> <<grossTotal, teamHandicap, grossTotal - teamHandicap>>]

calculateStraightScramble(td) ==
    LET playerHandicaps == [i \in 1..Len(td.players) |-> td.players[i].handicap]
        teamHandicap    == calculateTeamHandicap(playerHandicaps)
    IN  IF Len(td.players) = 0
        THEN ThrownResult
        ELSE LET grossTotal == calculateGrossTotal(td.players[1].holeScores)
                 netScore   == grossTotal - teamHandicap
             IN  [threw |-> FALSE, grossTotal |-> grossTotal,
                  teamHandicap |-> teamHandicap,
                  netScore |-> Some(netScore), pointsTotal |-> Undefined,
                  \* the numbers the breakdown string is formatted from
                  breakdown |-> <<grossTotal, teamHandicap, netScore>>]

getStrokeIndex(holeNumber, totalHoles) ==
    IF totalHoles = 18
    THEN STROKE_INDEX_18[holeNumber]
    \* Math.floor(((holeNumber - 1) / totalHoles) * 18), 0-based, then the table
    ELSE STROKE_INDEX_18[((18 * (holeNumber - 1)) \div totalHoles) + 1]

getHoleHandicapStrokes(playerHandicap, holeNumber, totalHoles) ==
    LET strokeIndex == getStrokeIndex(holeNumber, totalHoles)
    IN  IF playerHandicap >= strokeIndex THEN 1
        ELSE IF playerHandicap >= strokeIndex + 18 THEN 2
        ELSE 0

Par == 4

\* The table continued below par - 4 instead of falling back to 0.
netScoreToStablefordUncapped(netScore) ==
    IF netScore - Par >= 2 THEN 0 ELSE 2 - (netScore - Par)

netScoreToStableford(netScore) ==
    LET scoreToPar == netScore - Par
    IN  IF scoreToPar >= 2 THEN 0
        ELSE IF scoreToPar = 1 THEN 1
        ELSE IF scoreToPar = 0 THEN 2
        ELSE IF scoreToPar = -1 THEN 3
        ELSE IF scoreToPar = -2 THEN 4
        ELSE IF scoreToPar = -3 THEN 5
        ELSE IF scoreToPar = -4 THEN 6
        ELSE 0

\* One player's Stableford points on a hole; holeScores[holeIndex] is
\* undefined past the end of the array, the net score is then NaN and every
\* comparison of netScoreToStableford is false, which returns 0.
PlayerPoints(player, holeNum, holeCount) ==
    IF holeNum > Len(player.holeScores)
    THEN 0
    ELSE netScoreToStableford(
             player.holeScores[holeNum]
               - getHoleHandicapStrokes(player.handicap, holeNum, holeCount))

\* The first player's points taken as the hole's team points.
BestPointsFirstPlayer(players, holeNum, holeCount, bestPoints) ==
    PlayerPoints(players[1], holeNum, holeCount)

RECURSIVE BestPoints(_, _, _, _)
\* The inner loop: bestPoints starts at 0 and is raised by any higher points.
BestPoints(players, holeNum, holeCount, bestPoints) ==
    IF players = << >>
    THEN bestPoints
    ELSE LET points == PlayerPoints(players[1], holeNum, holeCount)
         IN  BestPoints(Tail(players), holeNum, holeCount,
                        IF points > bestPoints THEN points ELSE bestPoints)

RECURSIVE TeamPointsFrom(_, _, _)
\* The outer loop over holeNum = 1..holeCount, summing the best points.
TeamPointsFrom(players, holeNum, holeCount) ==
    IF holeNum > holeCount
    THEN 0
    ELSE BestPoints(players, holeNum, holeCount, 0)
           + TeamPointsFrom(players, holeNum + 1, holeCount)

\* The per-hole team points pushed to holeBreakdown, hole 1 first.
holeBreakdown(players, holeCount) ==
    [holeNum \in 1..holeCount |-> BestPoints(players, holeNum, holeCount, 0)]

calculateChampagneScramble(td) ==
    LET playerHandicaps == [i \in 1..Len(td.players) |-> td.players[i].handicap]
        teamHandicap    == calculateTeamHandicap(playerHandicaps)
    IN  IF Len(td.players) = 0
        THEN ThrownResult
        ELSE [threw |-> FALSE,
              grossTotal |-> calculateGrossTotal(td.players[1].holeScores),
              teamHandicap |-> teamHandicap,
              netScore |-> Undefined,
              pointsTotal |-> Some(TeamPointsFrom(td.players, 1, td.holeCount)),
              breakdown |-> holeBreakdown(td.players, td.holeCount)]

calculateTeamScore(td) ==
    IF td.scrambleMode = "straight"
    THEN calculateStraightScramble(td)
    ELSE calculateChampagneScramble(td)

----------------------------------------------------------------------------
(* Ranking engine: src/src/lib/rankingHelper.ts *)

\* The tie-break with the handicap comparison the wrong way round.
breakTieHandicapReversed(team1, team2) ==
    IF team1.grossTotal /= team2.grossTotal
    THEN IF team1.grossTotal < team2.grossTotal THEN -1 ELSE 1
    ELSE IF team1.teamHandicap /= team2.teamHandicap
    THEN IF team1.teamHandicap > team2.teamHandicap THEN -1 ELSE 1
    ELSE 0

\* The tie-break without its test for equal handicaps.
breakTieNoEqualTest(team1, team2) ==
    IF team1.grossTotal /= team2.grossTotal
    THEN IF team1.grossTotal < team2.grossTotal THEN -1 ELSE 1
    ELSE IF team1.teamHandicap < team2.teamHandicap THEN -1 ELSE 1

breakTie(team1, team2) ==
    IF team1.grossTotal /= team2.grossTotal
    THEN IF team1.grossTotal < team2.grossTotal THEN -1 ELSE 1
    ELSE IF team1.teamHandicap /= team2.teamHandicap
    THEN IF team1.teamHandicap < team2.teamHandicap THEN -1 ELSE 1
    ELSE 0

\* The straight comparator with the subtraction the wrong way round.
compareStraightDescending(a, b) ==
    IF a.netScore /= b.netScore
    THEN OrZero(b.netScore) - OrZero(a.netScore)
    ELSE breakTie(a, b)

\* The comparator given to straightTeams.sort: lower net score first.
compareStraight(a, b) ==
    IF a.netScore /= b.netScore
    THEN OrZero(a.netScore) - OrZero(b.netScore)
    ELSE breakTie(a, b)

\* The comparator given to champagneTeams.sort: higher points total first.
compareChampagne(a, b) ==
    IF a.pointsTotal /= b.pointsTotal
    THEN OrZero(b.pointsTotal) - OrZero(a.pointsTotal)
    ELSE breakTie(a, b)

compareTeams(mode, a, b) ==
    IF mode = "straight" THEN compareStraight(a, b) ELSE compareChampagne(a, b)

RECURSIVE InsertSorted(_, _, _)
\* x put into the sorted sequence s behind every element that does not
\* compare greater than it.
InsertSorted(mode, s, x) ==
    IF s = << >>
    THEN <<x>>
    ELSE IF compareTeams(mode, s[Len(s)], x) > 0
         THEN Append(InsertSorted(mode, SubSeq(s, 1, Len(s) - 1), x), s[Len(s)])
         ELSE Append(s, x)

RECURSIVE SortTeams(_, _)
\* Array.prototype.sort with a comparator: a stable sort (ECMAScript 2019),
\* here the insertion sort engines use for short arrays.
SortTeams(mode, s) ==
    IF s = << >>
    THEN << >>
    ELSE InsertSorted(mode, SortTeams(mode, SubSeq(s, 1, Len(s) - 1)), s[Len(s)])

IsStraight(t) == t.scrambleMode = "straight"

IsChampagne(t) == t.scrambleMode = "champagne"

\* The partition left out: every team is taken as a straight team.
straightTeamsUnfiltered(ts) == ts

\* teams.filter((t) => t.scrambleMode === "straight")
straightTeamsOf(ts) == SelectSeq(ts, IsStraight)

\* teams.filter((t) => t.scrambleMode === "champagne")
champagneTeamsOf(ts) == SelectSeq(ts, IsChampagne)

\* sorted.forEach((team, index) => rankings.push({id, rank: index + 1}))
RankEntries(sorted) ==
    [index \in 1..Len(sorted) |-> [id |-> sorted[index].id, rank |-> index]]

rankTeams(ts) ==
    RankEntries(SortTeams("straight", straightTeamsOf(ts)))
      \o RankEntries(SortTeams("champagne", champagneTeamsOf(ts)))

----------------------------------------------------------------------------
(* Recognized text.                                                        *)
(*                                                                         *)
(* A line of text is the sequence of its whitespace-separated tokens.  A   *)
(* token is a number written with one or two digits or a word of letters,  *)
(* periods and apostrophes, so a regular expression between \b word        *)
(* boundaries matches exactly when a whole token matches it.               *)

Num(n) == [k |-> "num", n |-> n, w |-> ""]

Word(w) == [k |-> "word", n |-> 0, w |-> w]

IsNum(t) == t.k = "num"

\* The keyword a word is when letter case is ignored (the i flag), "" if none.
Keyword(w) ==
    CASE w \in {"Name", "NAME", "name"}       -> "name"
      [] w \in {"Hcap", "HCAP", "hcap"}       -> "hcap"
      [] w \in {"Cap", "cap", "CAP"}          -> "cap"
      [] w \in {"Heap", "HEAP", "heap"}       -> "heap"
      [] w \in {"Par", "PAR", "par"}          -> "par"
      [] w \in {"Index", "INDEX", "index"}    -> "index"
      [] w \in {"Total", "TOTAL", "total"}    -> "total"
      [] w \in {"Points", "POINTS", "points"} -> "points"
      [] w \in {"Point", "POINT", "point"}    -> "point"
      [] w \in {"Pts", "PTS", "pts"}          -> "pts"
      [] w \in {"Hole", "HOLE", "hole"}       -> "hole"
      [] w \in {"Yards", "YARDS", "yards"}    -> "yards"
      [] w \in {"Yard's", "YARD'S", "yard's"} -> "yard's"
      [] w \in {"Blue", "BLUE", "blue"}       -> "blue"
      [] w \in {"White", "WHITE", "white"}    -> "white"
      [] w \in {"Green", "GREEN", "green"}    -> "green"
      [] w \in {"Ladies", "LADIES", "ladies"} -> "ladies"
      [] OTHER                                -> ""

\* String.prototype.toUpperCase on the words of the text.
ToUpperCase(w) ==
    CASE w \in {"Smith", "smith"} -> "SMITH"
      [] w \in {"Jones", "jones"} -> "JONES"
      [] w = "a"                  -> "A"
      [] Keyword(w) = "name"      -> "NAME"
      [] Keyword(w) = "hcap"      -> "HCAP"
      [] Keyword(w) = "cap"       -> "CAP"
      [] Keyword(w) = "heap"      -> "HEAP"
      [] Keyword(w) = "total"     -> "TOTAL"
      [] Keyword(w) = "par"       -> "PAR"
      [] Keyword(w) = "index"     -> "INDEX"
      [] Keyword(w) = "points"    -> "POINTS"
      [] Keyword(w) = "point"     -> "POINT"
      [] Keyword(w) = "pts"       -> "PTS"
      [] Keyword(w) = "hole"      -> "HOLE"
      [] Keyword(w) = "yards"     -> "YARDS"
      [] Keyword(w) = "yard's"    -> "YARD'S"
      [] Keyword(w) = "blue"      -> "BLUE"
      [] Keyword(w) = "white"     -> "WHITE"
      [] Keyword(w) = "green"     -> "GREEN"
      [] Keyword(w) = "ladies"    -> "LADIES"
      [] OTHER                    -> w

\* The words of one character.
SingleCharWords == {"A", "B", "a"}

\* /\bKEYWORD\b/i.test(line) for any of the keywords ks.
HasKeyword(line, ks) ==
    \E i \in 1..Len(line) : line[i].k = "word" /\ Keyword(line[i].w) \in ks

\* line.match(/\b\d{1,2}\b/g) mapped through parseInt: the numbers of the line.
MatchNums(line) ==
    LET nums == SelectSeq(line, IsNum)
    IN  [i \in 1..Len(nums) |-> nums[i].n]

\* Math.max(...s) of a non-empty sequence.
MaxOf(s) == CHOOSE m \in { s[i] : i \in 1..Len(s) } : \A i \in 1..Len(s) : s[i] <= m

----------------------------------------------------------------------------
(* The line-based interpreter: parseScorecard of src/src/lib/ocr.ts *)

CanonicalHoleCounts == {9, 13, 16, 18}

RECURSIVE inferHoleCountFrom(_, _, _)
\* The loop of inferHoleCount from line i on, with the best guess so far.
inferHoleCountFrom(allLines, i, bestGuess) ==
    IF i > Len(allLines)
    THEN bestGuess
    ELSE LET intNums == MatchNums(allLines[i])
         IN  IF Len(intNums) < 6
             THEN inferHoleCountFrom(allLines, i + 1, bestGuess)
             ELSE LET max == MaxOf(intNums)
                  IN  IF max \in CanonicalHoleCounts
                      THEN max
                      ELSE IF max >= 9 /\ max <= 18
                      THEN inferHoleCountFrom(allLines, i + 1, max)
                      ELSE inferHoleCountFrom(allLines, i + 1, bestGuess)

RECURSIVE inferHoleCountLastWins(_)
\* The scan without its early return: the last row in 9..18 wins.
inferHoleCountLastWins(allLines) ==
    IF allLines = << >>
    THEN 18
    ELSE LET intNums == MatchNums(allLines[Len(allLines)])
             before  == inferHoleCountLastWins(SubSeq(allLines, 1, Len(allLines) - 1))
         IN  IF Len(intNums) >= 6 /\ MaxOf(intNums) >= 9 /\ MaxOf(intNums) <= 18
             THEN MaxOf(intNums)
             ELSE before

inferHoleCount(allLines) == inferHoleCountFrom(allLines, 1, 18)

layoutKeywords ==
    {"hole", "yards", "yard's", "par", "index", "blue", "white", "green",
     "pts", "points", "ladies"}

\* layoutRegex.test(line)
layoutRegex(line) == HasKeyword(line, layoutKeywords)

\* The index of the first token of a layout keyword, 0 if there is none.
LayoutIndex(raw) ==
    IF layoutRegex(raw)
    THEN CHOOSE i \in 1..Len(raw) :
            /\ raw[i].k = "word" /\ Keyword(raw[i].w) \in layoutKeywords
            /\ \A j \in 1..(i - 1) :
                  ~(raw[j].k = "word" /\ Keyword(raw[j].w) \in layoutKeywords)
    ELSE 0

IsNameWordToken(t) == t.k = "word" /\ Keyword(t.w) \notin {"name", "hcap", "cap", "heap"}

\* cleanName cutting at the match index without testing that there is a match.
cleanNameCutWithoutMatch(raw) ==
    LET cut   == SubSeq(raw, 1, LayoutIndex(raw) - 1)
        words == SelectSeq(cut, IsNameWordToken)
        out   == [i \in 1..Len(words) |-> ToUpperCase(words[i].w)]
    IN  IF out = <<"NAME">> THEN << >> ELSE out

\* cleanName: the raw name cut at the first layout keyword, without the words
\* NAME, HCAP, CAP and HEAP and without numbers, in upper case.  The name is
\* the sequence of its words, which the string separates by single spaces.
cleanName(raw) ==
    LET cut   == IF LayoutIndex(raw) > 0 THEN SubSeq(raw, 1, LayoutIndex(raw) - 1) ELSE raw
        words == SelectSeq(cut, IsNameWordToken)
        out   == [i \in 1..Len(words) |-> ToUpperCase(words[i].w)]
    IN  IF out = <<"NAME">> THEN << >> ELSE out

\* rawName.length < 2 for a non-empty name: one word of one character.
ShorterThanTwo(name) ==
    \/ name = << >>
    \/ Len(name) = 1 /\ name[1] \in SingleCharWords

\* The first number of the line that a token of keyword kw directly precedes
\* (before = FALSE) or directly follows (before = TRUE); << >> if none.
NumberBeside(line, kws, before) ==
    LET hits == { i \in 1..(Len(line) - 1) :
                    IF before
                    THEN /\ IsNum(line[i])
                         /\ line[i + 1].k = "word" /\ line[i + 1].w \in kws
                    ELSE /\ line[i].k = "word" /\ line[i].w \in kws
                         /\ IsNum(line[i + 1]) }
    IN  IF hits = {}
        THEN << >>
        ELSE LET i == CHOOSE h \in hits : \A g \in hits : h <= g
             IN  IF before THEN <<line[i].n>> ELSE <<line[i + 1].n>>

HcapWords == {"Hcap", "HCAP", "hcap"}

CapWords == {"Cap", "cap"}

NameWords == {"Name", "NAME", "name"}

\* line.match(/\b([0-9]{1,2})\b/): the first number of a line.
FirstNumber(line) ==
    LET nums == MatchNums(line)
    IN  IF nums = << >> THEN << >> ELSE <<nums[1]>>

RECURSIVE HandicapPass1(_, _, _)
\* Pass 1: "Hcap 12", "12 Hcap" or "cap 12" on a line of the window.
HandicapPass1(allLines, i, end) ==
    IF i > end
    THEN << >>
    ELSE LET a == NumberBeside(allLines[i], HcapWords, FALSE)
             b == NumberBeside(allLines[i], HcapWords, TRUE)
             c == NumberBeside(allLines[i], CapWords, FALSE)
         IN  IF a /= << >> THEN a
             ELSE IF b /= << >> THEN b
             ELSE IF c /= << >> THEN c
             ELSE HandicapPass1(allLines, i + 1, end)

RECURSIVE HandicapPass2(_, _, _)
\* Pass 2: the first number of the line above or below an Hcap / Cap line.
HandicapPass2(allLines, i, end) ==
    IF i > end
    THEN << >>
    ELSE IF ~(\E t \in 1..Len(allLines[i]) :
                 /\ allLines[i][t].k = "word"
                 /\ Keyword(allLines[i][t].w) \in {"hcap", "cap"})
         THEN HandicapPass2(allLines, i + 1, end)
         ELSE LET prev == IF i - 1 >= 1 THEN allLines[i - 1] ELSE << >>
                  next == IF i + 1 <= Len(allLines) THEN allLines[i + 1] ELSE << >>
              IN  IF FirstNumber(prev) /= << >> THEN FirstNumber(prev)
                  ELSE IF FirstNumber(next) /= << >> THEN FirstNumber(next)
                  ELSE HandicapPass2(allLines, i + 1, end)

RECURSIVE HandicapPass3(_, _, _)
\* Pass 3: "15 Name" on a line of the window.
HandicapPass3(allLines, i, end) ==
    IF i > end
    THEN << >>
    ELSE LET a == NumberBeside(allLines[i], NameWords, TRUE)
         IN  IF a /= << >> THEN a ELSE HandicapPass3(allLines, i + 1, end)

\* Lines are numbered from 1 here and from 0 in the code.
findHandicapNearLine(allLines, centerIndex) ==
    LET end == IF Len(allLines) < centerIndex + 8 THEN Len(allLines) ELSE centerIndex + 8
        p1  == HandicapPass1(allLines, centerIndex, end)
        p2  == HandicapPass2(allLines, centerIndex, end)
        p3  == HandicapPass3(allLines, centerIndex, end)
    IN  IF p1 /= << >> THEN p1[1]
        ELSE IF p2 /= << >> THEN p2[1]
        ELSE IF p3 /= << >> THEN p3[1]
        ELSE 0

\* line.match(/^(?:(\d{1,2})\s+)?Name\b\s*(.*)$/i): whether it matches, the
\* handicap before Name (<< >> if none) and the text after Name.
inlineMatch(line) ==
    IF line[1].k = "word" /\ Keyword(line[1].w) = "name"
    THEN [matched |-> TRUE, handicap |-> << >>, name |-> SubSeq(line, 2, Len(line))]
    ELSE IF /\ Len(line) >= 2 /\ IsNum(line[1])
            /\ line[2].k = "word" /\ Keyword(line[2].w) = "name"
    THEN [matched |-> TRUE, handicap |-> <<line[1].n>>, name |-> SubSeq(line, 3, Len(line))]
    ELSE [matched |-> FALSE, handicap |-> << >>, name |-> << >>]

\* /^[A-Z0-9]$/.test(line)
IsSingleCharLine(line) ==
    /\ Len(line) = 1
    /\ \/ IsNum(line[1]) /\ line[1].n \in 0..9
       \/ line[1].k = "word" /\ line[1].w \in {"A", "B"}

\* /^(Hcap|Heap|Cap|cap)$/i.test(line)
IsPureHcapLine(line) ==
    /\ Len(line) = 1
    /\ line[1].k = "word" /\ Keyword(line[1].w) \in {"hcap", "heap", "cap"}

RECURSIVE NamePartsBelow(_, _, _, _)
\* Case 2: the name parts collected from lines j..last below a Name marker.
NamePartsBelow(allLines, j, last, nameParts) ==
    IF j > last
    THEN nameParts
    ELSE IF IsSingleCharLine(allLines[j]) \/ IsPureHcapLine(allLines[j])
    THEN NamePartsBelow(allLines, j + 1, last, nameParts)
    ELSE IF layoutRegex(allLines[j])
    THEN nameParts
    ELSE NamePartsBelow(allLines, j + 1, last, nameParts \o allLines[j])

RECURSIVE FindPlayersFrom(_, _, _)
\* The scan for Name markers from line i on, with the players found so far.
FindPlayersFrom(allLines, i, players) ==
    IF i > Len(allLines)
    THEN players
    ELSE IF ~HasKeyword(allLines[i], {"name"})
    THEN FindPlayersFrom(allLines, i + 1, players)
    ELSE LET m         == inlineMatch(allLines[i])
             last      == IF Len(allLines) < i + 4 THEN Len(allLines) ELSE i + 4
             nameParts == IF m.matched /\ m.name /= << >>
                          THEN m.name
                          ELSE NamePartsBelow(allLines, i + 1, last, << >>)
             rawName   == cleanName(nameParts)
         IN  IF ShorterThanTwo(rawName)
             THEN FindPlayersFrom(allLines, i + 1, players)
             ELSE IF \E p \in 1..Len(players) : players[p].name = rawName
             THEN FindPlayersFrom(allLines, i + 1, players)
             ELSE FindPlayersFrom(allLines, i + 1,
                      Append(players,
                             [name |-> rawName,
                              handicap |-> IF m.handicap /= << >>
                                           THEN m.handicap[1]
                                           ELSE findHandicapNearLine(allLines, i),
                              lineIndex |-> i]))

\* The labels of the lines extractScoresForPlayer skips.
ScoreSkipKeywords == {"name", "par", "index", "total", "point", "points", "hcap", "heap"}

\* The range test letting a score of 1 through.
IsGrossScoreFromOne(n) == n >= 1 /\ n <= 12

IsGrossScore(n) == n >= 2 /\ n <= 12

RECURSIVE CollectScores(_, _, _, _, _)
\* The loop of extractScoresForPlayer over the lines i..endIndex-1.
CollectScores(allLines, i, endIndex, targetHoles, scores) ==
    IF i >= endIndex \/ Len(scores) >= targetHoles
    THEN scores
    ELSE IF HasKeyword(allLines[i], ScoreSkipKeywords)
    THEN CollectScores(allLines, i + 1, endIndex, targetHoles, scores)
    ELSE LET found == SelectSeq(MatchNums(allLines[i]), IsGrossScore)
             room  == targetHoles - Len(scores)
             taken == IF Len(found) > room THEN SubSeq(found, 1, room) ELSE found
         IN  CollectScores(allLines, i + 1, endIndex, targetHoles, scores \o taken)

\* scores padded with 0 up to targetHoles and cut down to targetHoles.
PadScores(scores, targetHoles) ==
    [h \in 1..targetHoles |-> IF h <= Len(scores) THEN scores[h] ELSE 0]

\* The scores returned as collected, without the padding.
extractScoresForPlayerUnpadded(allLines, startIndex, endIndex, targetHoles) ==
    CollectScores(allLines, startIndex + 1, endIndex, targetHoles, << >>)

\* The scan running on to the end of the text, past the next player's anchor.
extractScoresForPlayerToEnd(allLines, startIndex, endIndex, targetHoles) ==
    PadScores(CollectScores(allLines, startIndex + 1, Len(allLines) + 1, targetHoles, << >>),
              targetHoles)

extractScoresForPlayer(allLines, startIndex, endIndex, targetHoles) ==
    PadScores(CollectScores(allLines, startIndex + 1, endIndex, targetHoles, << >>),
              targetHoles)

\* hasAnyRealScores: some score of some player is above 0.
\* The bonus granted whatever was recovered.
HasRealScoresAlways(holeScores) == TRUE

HasRealScores(holeScores) ==
    \E p \in 1..Len(holeScores) : \E h \in 1..Len(holeScores[p]) : holeScores[p][h] > 0

\* The result for no players; confidence is in hundredths (0.2 is 20).
EmptyOCRResult ==
    [playerNames |-> << >>, playerHandicaps |-> << >>, holeScores |-> << >>,
     detectedHoleCount |-> 0, confidence |-> 20]

\* parseScorecard of ocr.ts on the lines of the text, given the hole count
\* inferHoleCount returned.  The team name, taken from the clock, is left out.
parseScorecard(allLines, hc) ==
    LET players == FindPlayersFrom(allLines, 1, << >>)
    IN  IF Len(players) = 0
        THEN EmptyOCRResult
        ELSE LET scores ==
                   [idx \in 1..Len(players) |->
                       extractScoresForPlayer(
                           allLines, players[idx].lineIndex,
                           IF idx < Len(players)
                           THEN players[idx + 1].lineIndex
                           ELSE Len(allLines) + 1,
                           hc)]
                 base == IF Len(players) >= 3 THEN 50
                         ELSE IF Len(players) = 2 THEN 45 ELSE 40
             IN  [playerNames |-> [p \in 1..Len(players) |-> players[p].name],
                  playerHandicaps |-> [p \in 1..Len(players) |-> players[p].handicap],
                  holeScores |-> scores,
                  detectedHoleCount |-> hc,
                  confidence |-> IF HasRealScores(scores) THEN base + 20 ELSE base]

----------------------------------------------------------------------------
(* The bounding-box interpreter: src/unnamed/part_004.                     *)
(*                                                                         *)
(* An annotation is a token with the least x and the least y of the        *)
(* vertices of its bounding polygon, the only coordinates the code reads.  *)

\* parseInt(description, 10): << >> is NaN.
ParseInt(t) == IF IsNum(t) THEN <<t.n>> ELSE << >>

RECURSIVE InsertByY(_, _)
InsertByY(s, a) ==
    IF s = << >>
    THEN <<a>>
    ELSE IF s[Len(s)].y - a.y > 0
         THEN Append(InsertByY(SubSeq(s, 1, Len(s) - 1), a), s[Len(s)])
         ELSE Append(s, a)

RECURSIVE SortByY(_)
\* [...annotations].sort((a, b) => yA - yB), a stable sort.
SortByY(s) ==
    IF s = << >> THEN << >>
    ELSE InsertByY(SortByY(SubSeq(s, 1, Len(s) - 1)), s[Len(s)])

RECURSIVE InsertByX(_, _)
InsertByX(s, a) ==
    IF s = << >>
    THEN <<a>>
    ELSE IF s[Len(s)].x - a.x > 0
         THEN Append(InsertByX(SubSeq(s, 1, Len(s) - 1), a), s[Len(s)])
         ELSE Append(s, a)

RECURSIVE SortByX(_)
\* .sort((a, b) => a.x - b.x), a stable sort.
SortByX(s) ==
    IF s = << >> THEN << >>
    ELSE InsertByX(SortByX(SubSeq(s, 1, Len(s) - 1)), s[Len(s)])

Abs(n) == IF n < 0 THEN 0 - n ELSE n

RowTolerance == 20

RECURSIVE GroupRowsFrom(_, _, _, _, _, _)
\* The walk of groupByRows over sorted[i..], with the rows closed so far, the
\* current row and the y of the last token; started is lastY !== -1000.
GroupRowsFrom(sorted, i, tolerance, rows, currentRow, last) ==
    IF i > Len(sorted)
    THEN IF Len(currentRow) > 0 THEN Append(rows, currentRow) ELSE rows
    ELSE LET ann == sorted[i]
         IN  IF ~last.started \/ Abs(ann.y - last.y) <= tolerance
             THEN GroupRowsFrom(sorted, i + 1, tolerance, rows,
                                Append(currentRow, ann),
                                [started |-> TRUE, y |-> ann.y])
             ELSE GroupRowsFrom(sorted, i + 1, tolerance,
                                IF Len(currentRow) > 0
                                THEN Append(rows, currentRow) ELSE rows,
                                <<ann>>,
                                [started |-> TRUE, y |-> ann.y])

\* groupByRows without the push of the current row after the loop.
groupByRowsWithoutLastPush(anns, tolerance) ==
    LET rows == GroupRowsFrom(SortByY(anns), 1, tolerance, << >>, << >>,
                              [started |-> FALSE, y |-> 0])
    IN  IF rows = << >> THEN << >> ELSE SubSeq(rows, 1, Len(rows) - 1)

groupByRows(anns, tolerance) ==
    GroupRowsFrom(SortByY(anns), 1, tolerance, << >>, << >>,
                  [started |-> FALSE, y |-> 0])

\* The tokens of a row, in the order the row holds them.
RowTokens(row) == [i \in 1..Len(row) |-> row[i].description]

\* /\b(hole|par|index|yard)/i.test(text): a word that begins with one of those.
IsHeaderRow(row) ==
    \E i \in 1..Len(row) :
        /\ row[i].description.k = "word"
        /\ \/ Keyword(row[i].description.w) \in {"hole", "par", "index", "yards", "yard's"}
           \/ row[i].description.w \in {"PARKER", "Parker"}

\* /[A-Za-z]{2,}/.test(text) || /\bname\b/i.test(text)
HasLettersOrNameMarker(row) ==
    \E i \in 1..Len(row) :
        /\ row[i].description.k = "word"
        /\ row[i].description.w \notin SingleCharWords

IsPlayerRow(row) == ~IsHeaderRow(row) /\ HasLettersOrNameMarker(row)

findPlayerRows(rows) == SelectSeq(rows, IsPlayerRow)

\* The index of the first token whose keyword is in ks, 0 if there is none.
FindIndex(tokens, ks) ==
    LET hits == { i \in 1..Len(tokens) :
                    tokens[i].k = "word" /\ Keyword(tokens[i].w) \in ks }
    IN  IF hits = {} THEN 0 ELSE CHOOSE h \in hits : \A g \in hits : h <= g

IsWordToken(t) == t.k = "word"

IsLongWordToken(t) == t.k = "word" /\ t.w \notin SingleCharWords

IsLowHandicap(t) == IsNum(t) /\ t.n >= 0 /\ t.n <= 36

FirstThree(s) == IF Len(s) > 3 THEN SubSeq(s, 1, 3) ELSE s

\* The handicap extractPlayer finds among the tokens of a row.
RowHandicap(tokens) ==
    LET hcapIdx == FindIndex(tokens, {"hcap", "cap"})
    IN  IF hcapIdx >= 1 /\ hcapIdx < Len(tokens)
        THEN LET num == ParseInt(tokens[hcapIdx + 1])
             IN  IF num /= << >> /\ num[1] >= 0 /\ num[1] <= 54 THEN num[1] ELSE 0
        ELSE LET candidates == SelectSeq(tokens, IsLowHandicap)
             IN  IF candidates = << >> THEN 0 ELSE candidates[1].n

\* "Clean up name" of extractPlayer: the name without the words name, hcap,
\* cap and heap and without digits, in upper case, PLAYER when nothing is left.
cleanUpName(nameParts) ==
    LET words == SelectSeq(nameParts, IsNameWordToken)
        name  == [i \in 1..Len(words) |-> ToUpperCase(words[i].w)]
    IN  IF name = << >> THEN <<"PLAYER">> ELSE name

\* The name extractPlayer finds among the tokens of a row, cleaned up.
RowName(tokens) ==
    LET nameIdx   == FindIndex(tokens, {"name"})
        nameParts == IF nameIdx >= 1
                     THEN SelectSeq(SubSeq(tokens, nameIdx + 1, Len(tokens)), IsWordToken)
                     ELSE SelectSeq(tokens, IsLongWordToken)
    IN  cleanUpName(FirstThree(nameParts))

extractPlayer(row) ==
    LET tokens == RowTokens(SortByX(row))
    IN  [name |-> RowName(tokens), handicap |-> RowHandicap(tokens), row |-> row]

IsHoleNumber(n) == n >= 1 /\ n <= 18

RECURSIVE detectHoleCountFrom(_, _)
\* The loop of detectHoleCount from row i on.
detectHoleCountFrom(rows, i) ==
    IF i > Len(rows)
    THEN 18
    ELSE LET numbers == SelectSeq(MatchNums(RowTokens(rows[i])), IsHoleNumber)
         IN  IF Len(numbers) >= 6
             THEN LET max == MaxOf(numbers)
                  IN  IF max \in CanonicalHoleCounts THEN max
                      ELSE IF max >= 9 /\ max <= 18 THEN max
                      ELSE detectHoleCountFrom(rows, i + 1)
             ELSE detectHoleCountFrom(rows, i + 1)

detectHoleCount(rows) == detectHoleCountFrom(rows, 1)

\* The scores cut to the hole count but not padded up to it.
extractScoresFromRowUnpadded(row, hc) ==
    LET scores == SelectSeq(MatchNums(RowTokens(row)), IsGrossScore)
    IN  IF Len(scores) > hc THEN SubSeq(scores, 1, hc) ELSE scores

extractScoresFromRow(row, hc) ==
    PadScores(SelectSeq(MatchNums(RowTokens(row)), IsGrossScore), hc)

\* parseScorecardWithBoundingBoxes, given the hole count detectHoleCount
\* returned for the grouped rows.
parseScorecardWithBoundingBoxes(anns, hc) ==
    LET rowGroups  == groupByRows(anns, RowTolerance)
        playerRows == findPlayerRows(rowGroups)
        players    == [p \in 1..Len(playerRows) |-> extractPlayer(playerRows[p])]
        scores     == [p \in 1..Len(players) |-> extractScoresFromRow(players[p].row, hc)]
    IN  [playerNames |-> [p \in 1..Len(players) |-> players[p].name],
         playerHandicaps |-> [p \in 1..Len(players) |-> players[p].handicap],
         holeScores |-> scores,
         detectedHoleCount |-> hc,
         confidence |-> IF Len(players) >= 3 /\ HasRealScores(scores) THEN 80
                        ELSE IF Len(players) >= 2 THEN 60 ELSE 40]

----------------------------------------------------------------------------
(* The text fallback of the bounding-box variant: parseScorecard of        *)
(* src/unnamed/part_004.                                                   *)

\* /^[A-Za-z.\s]{2,}$/.test(line): letters, periods and spaces only, two
\* characters or more.
IsPlainNameLine(line) ==
    /\ \A i \in 1..Len(line) :
          line[i].k = "word" /\ line[i].w \notin {"O'BRIEN", "Yard's", "YARD'S", "yard's"}
    /\ ~(Len(line) = 1 /\ line[1].w \in SingleCharWords)

RECURSIVE FallbackNameParts(_, _, _, _)
\* The name lines below a Name marker, up to the first line that is not one.
FallbackNameParts(allLines, j, last, nameParts) ==
    IF j > last \/ ~IsPlainNameLine(allLines[j])
    THEN nameParts
    ELSE FallbackNameParts(allLines, j + 1, last, nameParts \o allLines[j])

RECURSIVE FallbackHandicap(_, _, _)
\* The first /\b(\d{1,2})\s*(hcap|cap)\b/i match on the lines j..last, else 0.
FallbackHandicap(allLines, j, last) ==
    IF j > last
    THEN 0
    ELSE LET m == NumberBeside(allLines[j], HcapWords \cup {"Cap", "cap", "CAP"}, TRUE)
         IN  IF m /= << >> THEN m[1] ELSE FallbackHandicap(allLines, j + 1, last)

FallbackHoleCount == 18

RECURSIVE FallbackPlayersFrom(_, _, _)
FallbackPlayersFrom(allLines, i, players) ==
    IF i > Len(allLines)
    THEN players
    ELSE IF ~HasKeyword(allLines[i], {"name"})
    THEN FallbackPlayersFrom(allLines, i + 1, players)
    ELSE LET lastName  == IF Len(allLines) < i + 3 THEN Len(allLines) ELSE i + 3
             lastHcap  == IF Len(allLines) < i + 4 THEN Len(allLines) ELSE i + 4
             nameParts == FallbackNameParts(allLines, i + 1, lastName, << >>)
             upper     == [k \in 1..Len(nameParts) |-> ToUpperCase(nameParts[k].w)]
         IN  FallbackPlayersFrom(allLines, i + 1,
                 Append(players,
                        [name |-> IF upper = << >> THEN <<"PLAYER">> ELSE upper,
                         handicap |-> FallbackHandicap(allLines, i, lastHcap)]))

parseScorecardFallback(allLines) ==
    LET players == FallbackPlayersFrom(allLines, 1, << >>)
    IN  [playerNames |-> [p \in 1..Len(players) |-> players[p].name],
         playerHandicaps |-> [p \in 1..Len(players) |-> players[p].handicap],
         holeScores |-> [p \in 1..Len(players) |-> [h \in 1..FallbackHoleCount |-> 0]],
         detectedHoleCount |-> FallbackHoleCount,
         confidence |-> IF Len(players) > 0 THEN 40 ELSE 20]

----------------------------------------------------------------------------
(* Inputs *)

MaxPlayers == 3

MaxTeams == 4

HandicapMenu == {5, 6, 8, 12, 15}

HoleCountMenu == {9, 18}

\* Per-hole gross scores of one player over n holes: 4s with three 5s at the
\* end (75 over 18 holes), nothing recovered, and alternating 5s and 3s.
HoleScoresMenu(n) ==
    { [i \in 1..n |-> IF i > n - 3 THEN 5 ELSE 4],
      [i \in 1..n |-> 0],
      [i \in 1..n |-> IF i % 2 = 1 THEN 5 ELSE 3] }

PlayerMenu(n) == [handicap : HandicapMenu, holeScores : HoleScoresMenu(n)]

ScrambleModes == {"straight", "champagne"}

\* Team records as the scoring engine produces them: a straight team's net
\* score is its gross total less its team handicap and it has no points total;
\* a champagne team has a points total and no net score.
TeamMenu ==
    { [scrambleMode |-> "straight", netScore |-> Some(g - h),
       pointsTotal |-> Undefined, grossTotal |-> g, teamHandicap |-> h] :
        g \in {75, 76}, h \in {3, 4} }
    \cup
    { [scrambleMode |-> "champagne", netScore |-> Undefined,
       pointsTotal |-> Some(p), grossTotal |-> g, teamHandicap |-> h] :
        p \in {30, 31}, g \in {75, 76}, h \in {3, 4} }

\* The stored teams of an event: each has its own id.
WithIds(s) ==
    [i \in 1..Len(s) |->
        [id |-> i, scrambleMode |-> s[i].scrambleMode, netScore |-> s[i].netScore,
         pointsTotal |-> s[i].pointsTotal, grossTotal |-> s[i].grossTotal,
         teamHandicap |-> s[i].teamHandicap]]

NoOCRResult ==
    [playerNames |-> << >>, playerHandicaps |-> << >>, holeScores |-> << >>,
     detectedHoleCount |-> 0, confidence |-> 0]

NoScoringResult ==
    [threw |-> FALSE, grossTotal |-> 0, teamHandicap |-> 0,
     netScore |-> Undefined, pointsTotal |-> Undefined, breakdown |-> << >>]

NoTeamData == [players |-> << >>, holeCount |-> 18, scrambleMode |-> "straight"]

IdleOCR ==
    /\ lines = << >>
    /\ annotations = << >>
    /\ ocrVariant = "none"
    /\ detectedHoles = 0
    /\ ocrResult = NoOCRResult

IdleScoring ==
    /\ teamData = NoTeamData
    /\ scoringResult = NoScoringResult

NoHoleArgs ==
    [call |-> "none", playerHandicap |-> 0, holeNumber |-> 1, totalHoles |-> 18, netScore |-> 0]

IdleHole ==
    /\ holeArgs = NoHoleArgs
    /\ holeResult = Undefined

NoBatch ==
    [cards |-> << >>, i |-> 0, submits |-> 0, successCount |-> 0, errorCount |-> 0,
     uploading |-> FALSE, uploadSuccess |-> FALSE, scrambleMode |-> "straight"]

IdleUpload ==
    /\ batch = NoBatch
    /\ callLog = << >>
    /\ allTeams = << >>

NoNameArgs == [call |-> "", raw |-> << >>]

IdleName ==
    /\ nameArgs = NoNameArgs
    /\ nameResult = << >>

IdleRanking ==
    /\ teams = << >>
    /\ rankings = << >>
    /\ tieResult = << >>

----------------------------------------------------------------------------
(* The scoring engine applied to a team *)

InitScore ==
    /\ IdleOCR
    /\ IdleHole
    /\ IdleUpload
    /\ IdleName
    /\ IdleRanking
    /\ \E n \in HoleCountMenu, m \in ScrambleModes, k \in 0..MaxPlayers :
         \E ps \in [1..k -> PlayerMenu(n)] :
            teamData = [players |-> ps, holeCount |-> n, scrambleMode |-> m]
    /\ scoringResult = NoScoringResult
    /\ pc = "ready"

CalculateTeamScore ==
    /\ pc = "ready"
    /\ scoringResult' = calculateTeamScore(teamData)
    /\ pc' = "calculateTeamScore"
    /\ UNCHANGED <<nameVars, holeVars, uploadVars, teamData, ocrVars, rankVars>>

NextScore == CalculateTeamScore

SpecScore == InitScore /\ [][NextScore]_vars

----------------------------------------------------------------------------
(* The per-hole functions of the points format applied to their arguments *)

\* The highest handicap a player record holds.
MaxHandicap == 54

\* Net scores run from -MaxNetScore to MaxNetScore.
MaxNetScore == 12

EventHoleCounts == {9, 13, 16, 18}

InitHole ==
    /\ IdleOCR
    /\ IdleUpload
    /\ IdleName
    /\ IdleScoring
    /\ IdleRanking
    /\ \/ \E h \in 0..MaxHandicap, t \in EventHoleCounts :
             \E n \in 1..t :
                holeArgs = [call |-> "getHoleHandicapStrokes", playerHandicap |-> h,
                            holeNumber |-> n, totalHoles |-> t, netScore |-> 0]
       \/ \E s \in (0 - MaxNetScore)..MaxNetScore :
             holeArgs = [call |-> "netScoreToStableford", playerHandicap |-> 0,
                         holeNumber |-> 1, totalHoles |-> 18, netScore |-> s]
    /\ holeResult = Undefined
    /\ pc = "ready"

GetHoleHandicapStrokes ==
    /\ pc = "ready"
    /\ holeArgs.call = "getHoleHandicapStrokes"
    /\ holeResult' = Some(getHoleHandicapStrokes(holeArgs.playerHandicap,
                                                 holeArgs.holeNumber, holeArgs.totalHoles))
    /\ pc' = "getHoleHandicapStrokes"
    /\ UNCHANGED <<nameVars, holeArgs, uploadVars, ocrVars, scoreVars, rankVars>>

NetScoreToStableford ==
    /\ pc = "ready"
    /\ holeArgs.call = "netScoreToStableford"
    /\ holeResult' = Some(netScoreToStableford(holeArgs.netScore))
    /\ pc' = "netScoreToStableford"
    /\ UNCHANGED <<nameVars, holeArgs, uploadVars, ocrVars, scoreVars, rankVars>>

NextHole == GetHoleHandicapStrokes \/ NetScoreToStableford

SpecHole == InitHole /\ [][NextHole]_vars

----------------------------------------------------------------------------
(* The ranking engine applied to the teams of an event *)

InitRank ==
    /\ IdleOCR
    /\ IdleHole
    /\ IdleUpload
    /\ IdleName
    /\ IdleScoring
    /\ \E k \in 0..MaxTeams : \E s \in [1..k -> TeamMenu] : teams = WithIds(s)
    /\ rankings = << >>
    /\ tieResult = << >>
    /\ pc = "ready"

RankTeams ==
    /\ pc = "ready"
    /\ rankings' = rankTeams(teams)
    /\ pc' = "rankTeams"
    /\ UNCHANGED <<nameVars, holeVars, uploadVars, teams, tieResult, ocrVars, scoreVars>>

\* breakTie called on every ordered pair of the teams.
BreakTie ==
    /\ pc = "ready"
    /\ tieResult' = [i \in 1..Len(teams) |->
                        [j \in 1..Len(teams) |-> breakTie(teams[i], teams[j])]]
    /\ pc' = "breakTie"
    /\ UNCHANGED <<nameVars, holeVars, uploadVars, teams, rankings, ocrVars, scoreVars>>

NextRank == RankTeams \/ BreakTie

SpecRank == InitRank /\ [][NextRank]_vars

----------------------------------------------------------------------------
(* The interpreters applied to a recognized scorecard *)

MaxLines == 3

MaxRows == 2

\* The hole numbers 1..n of a header.
HoleNumbers(n) == [i \in 1..n |-> Num(i)]

\* Ten gross scores of one player.
TenScores == <<Num(4), Num(5), Num(3), Num(4), Num(5), Num(6), Num(4), Num(3), Num(5), Num(4)>>

\* The lines a text is made of: headers of 9, 16, 18 and 12 hole numbers, a
\* short line that ends at 16, Name markers with and without a name and a
\* handicap, a line of scores, a Par line, an Hcap line, a Name marker
\* behind a misread number and a Name marker with the Hcap label at its end.
LineMenu ==
    { HoleNumbers(9), HoleNumbers(16), HoleNumbers(18), HoleNumbers(12),
      <<Num(14), Num(15), Num(16)>>,
      <<Word("Name"), Word("SMITH")>>,
      <<Num(15), Word("Name"), Word("Jones")>>,
      <<Word("Name")>>,
      TenScores,
      <<Word("Par"), Num(4), Num(4), Num(3), Num(4), Num(5), Num(4)>>,
      <<Word("Hcap"), Num(12)>>,
      <<Num(72), Word("Name"), Word("Jones"), Word("SMITH")>>,
      <<Word("Name"), Word("SMITH"), Word("Hcap")>> }

\* The rows a photographed card is made of: headers, and player rows with a
\* name, a handicap and scores.
RowMenu ==
    { HoleNumbers(9), HoleNumbers(16), HoleNumbers(18), HoleNumbers(12),
      <<Word("Hole"), Num(14), Num(15), Num(16)>>,
      <<Word("SMITH"), Num(12)>> \o TenScores,
      <<Word("Name"), Word("Jones"), Word("Hcap"), Num(15), Num(4), Num(5)>>,
      <<Word("Name")>> }

\* The vertical distance of a row from the row above it: within the row
\* tolerance of 20, and beyond it.
RowGapMenu == {15, 30}

\* How far every second token of a row sits below the others.
JitterMenu == {0, 5}

RECURSIVE RowTop(_, _)
\* The y of row k: the sum of the gaps of the rows 1..k.
RowTop(gaps, k) == IF k = 0 THEN 0 ELSE gaps[k] + RowTop(gaps, k - 1)

\* The annotations of one row of tokens, left to right.
RowAnnotations(tokens, top, jitter) ==
    [j \in 1..Len(tokens) |->
        [description |-> tokens[j], x |-> 10 * j,
         y |-> top + (IF j % 2 = 0 THEN jitter ELSE 0)]]

RECURSIVE PageAnnotations(_, _, _, _)
\* The annotations of a page in reading order, rows k..Len(rows).
PageAnnotations(rows, gaps, jitter, k) ==
    IF k > Len(rows)
    THEN << >>
    ELSE RowAnnotations(rows[k], RowTop(gaps, k), jitter)
           \o PageAnnotations(rows, gaps, jitter, k + 1)

InitOCR ==
    /\ IdleScoring
    /\ IdleHole
    /\ IdleUpload
    /\ IdleName
    /\ IdleRanking
    /\ \/ /\ \E k \in 0..MaxLines : lines \in [1..k -> LineMenu]
          /\ annotations = << >>
       \/ /\ lines = << >>
          /\ \E k \in 1..MaxRows :
                \E rows \in [1..k -> RowMenu], gaps \in [1..k -> RowGapMenu],
                   jitter \in JitterMenu :
                    annotations = PageAnnotations(rows, gaps, jitter, 1)
    /\ ocrVariant = "none"
    /\ detectedHoles = 0
    /\ ocrResult = NoOCRResult
    /\ pc = "ready"

\* extractScorecardData of ocr.ts once the text has arrived: it asks the
\* provider for the text only and interprets its lines.
ExtractScorecardDataText ==
    /\ pc = "ready"
    /\ annotations = << >>
    /\ detectedHoles' = inferHoleCount(lines)
    /\ ocrResult' = parseScorecard(lines, detectedHoles')
    /\ ocrVariant' = "lines"
    /\ pc' = "extractScorecardData"
    /\ UNCHANGED <<nameVars, holeVars, uploadVars, lines, annotations, scoreVars, rankVars>>

\* extractScorecardData of part_004 with annotations in the response.
ExtractScorecardDataBoxes ==
    /\ pc = "ready"
    /\ Len(annotations) > 0
    /\ detectedHoles' = detectHoleCount(groupByRows(annotations, RowTolerance))
    /\ ocrResult' = parseScorecardWithBoundingBoxes(annotations, detectedHoles')
    /\ ocrVariant' = "boxes"
    /\ pc' = "extractScorecardData"
    /\ UNCHANGED <<nameVars, holeVars, uploadVars, lines, annotations, scoreVars, rankVars>>

\* extractScorecardData of part_004 without annotations: the text fallback.
ExtractScorecardDataFallback ==
    /\ pc = "ready"
    /\ Len(annotations) = 0
    /\ detectedHoles' = FallbackHoleCount
    /\ ocrResult' = parseScorecardFallback(lines)
    /\ ocrVariant' = "fallback"
    /\ pc' = "extractScorecardData"
    /\ UNCHANGED <<nameVars, holeVars, uploadVars, lines, annotations, scoreVars, rankVars>>

NextOCR ==
    \/ ExtractScorecardDataText
    \/ ExtractScorecardDataBoxes
    \/ ExtractScorecardDataFallback

SpecOCR == InitOCR /\ [][NextOCR]_vars

----------------------------------------------------------------------------
(* The name cleanups applied to a raw name, and again to what they returned *)

MaxNameTokens == 3

NameTokenMenu ==
    {Word("SMITH"), Word("Smith"), Word("JONES"), Word("GREEN"), Word("Par"),
     Word("NAME"), Word("Hcap"), Word("PLAYER"), Num(15)}

\* The tokens of a name, which separates its words by single spaces.
NameTokens(name) == [i \in 1..Len(name) |-> Word(name[i])]

\* The cleanup of the line-based interpreter or the one of extractPlayer.
CleanUp(call, raw) == IF call = "cleanName" THEN cleanName(raw) ELSE cleanUpName(raw)

InitName ==
    /\ IdleOCR
    /\ IdleScoring
    /\ IdleRanking
    /\ IdleHole
    /\ IdleUpload
    /\ \E call \in {"cleanName", "extractPlayer"}, k \in 0..MaxNameTokens :
         \E raw \in [1..k -> NameTokenMenu] :
            nameArgs = [call |-> call, raw |-> raw]
    /\ nameResult = << >>
    /\ pc = "ready"

CleanName ==
    /\ pc = "ready"
    /\ nameResult' = <<CleanUp(nameArgs.call, nameArgs.raw)>>
    /\ pc' = "cleaned"
    /\ UNCHANGED <<nameArgs, holeVars, uploadVars, ocrVars, scoreVars, rankVars>>

CleanNameAgain ==
    /\ pc = "cleaned"
    /\ nameResult' = Append(nameResult, CleanUp(nameArgs.call, NameTokens(nameResult[1])))
    /\ pc' = "cleanedAgain"
    /\ UNCHANGED <<nameArgs, holeVars, uploadVars, ocrVars, scoreVars, rankVars>>

NextName == CleanName \/ CleanNameAgain

SpecName == InitName /\ [][NextName]_vars

----------------------------------------------------------------------------
(* The batch upload: handleSubmitAll of src/unnamed/part_002 runs          *)
(* processUploadedScorecard of src/unnamed/part_005 on each selected card, *)
(* and App.tsx ranks the stored teams of the event.  A card is the text    *)
(* the OCR provider recognizes on its image.                                *)

MaxCards == 2

\* The cards the invocations of handleSubmitAll process in all.
MaxProcessed == 4

\* The event the cards are uploaded for, and another event of the store.
CurrentEventId == 1

OtherEventId == 2

\* Texts of cards: nothing legible, one player of a 9-hole card, one player
\* with a handicap, and two players.
CardMenu ==
    { << >>,
      <<HoleNumbers(9), <<Word("Name"), Word("SMITH")>>, TenScores>>,
      <<<<Num(15), Word("Name"), Word("Jones")>>, TenScores>>,
      <<<<Word("Name"), Word("SMITH")>>, TenScores,
        <<Num(15), Word("Name"), Word("Jones")>>>> }

\* A stored team of another event.
OtherEventTeam ==
    [id |-> 1, eventId |-> OtherEventId, scrambleMode |-> "straight",
     playerNames |-> <<<<"BYRNE">>>>, playerHandicaps |-> <<10>>, holeCount |-> 18,
     grossTotal |-> 75, teamHandicap |-> 1, netScore |-> Some(74),
     pointsTotal |-> Undefined, rank |-> 0, holeScores |-> << >>]

Append1(s, x) == s \o <<x>>

\* A logged call: the invocation of handleSubmitAll it belongs to, the card
\* and the name of what was called.
Called(run, card, call) == [run |-> run, card |-> card, call |-> call]

\* The validation of step 3 left out.
NoPlayersDetectedUnchecked(ocrData) == FALSE

\* (!ocrData.playerNames || ocrData.playerNames.length === 0)
NoPlayersDetected(ocrData) == Len(ocrData.playerNames) = 0

\* (ocrData.detectedHoleCount || 18)
HoleCountOr18(ocrData) ==
    IF ocrData.detectedHoleCount = 0 THEN 18 ELSE ocrData.detectedHoleCount

\* Step 3: the handicaps padded with 0 to the number of names.
PaddedHandicaps(ocrData) ==
    IF Len(ocrData.playerHandicaps) < Len(ocrData.playerNames)
    THEN ocrData.playerHandicaps
           \o [k \in 1..(Len(ocrData.playerNames) - Len(ocrData.playerHandicaps)) |-> 0]
    ELSE ocrData.playerHandicaps

\* Step 3: one row of scores per player, rows of 0 when none was returned.
ScoreRows(ocrData) ==
    IF Len(ocrData.holeScores) > 0
    THEN ocrData.holeScores
    ELSE [p \in 1..Len(ocrData.playerNames) |-> [h \in 1..HoleCountOr18(ocrData) |-> 0]]

\* Step 4: the TeamData handed to calculateTeamScore.
TeamDataOf(ocrData, scrambleMode) ==
    LET playerHandicaps == PaddedHandicaps(ocrData)
        holeScores      == ScoreRows(ocrData)
    IN  [players |-> [idx \in 1..Len(ocrData.playerNames) |->
                        [name |-> ocrData.playerNames[idx],
                         handicap |-> IF idx <= Len(playerHandicaps)
                                      THEN playerHandicaps[idx] ELSE 0,
                         holeScores |-> IF idx <= Len(holeScores)
                                        THEN holeScores[idx] ELSE << >>]],
         holeCount |-> HoleCountOr18(ocrData),
         scrambleMode |-> scrambleMode]

\* Step 5: the record handed to onTeamCreated; the JSON texts are held as the
\* arrays they are written from.
TeamRecordOf(eventId, ocrData, scrambleMode, result) ==
    [eventId |-> eventId, scrambleMode |-> scrambleMode,
     playerNames |-> ocrData.playerNames,
     playerHandicaps |-> PaddedHandicaps(ocrData),
     holeCount |-> HoleCountOr18(ocrData),
     grossTotal |-> result.grossTotal, teamHandicap |-> result.teamHandicap,
     netScore |-> result.netScore, pointsTotal |-> result.pointsTotal,
     rank |-> 0, holeScores |-> ScoreRows(ocrData)]

\* The create of the team store: the record is stored under a fresh id and
\* becomes one of the items.
createTeam(items, record) ==
    Append1(items,
            [id |-> Len(items) + 1, eventId |-> record.eventId,
             scrambleMode |-> record.scrambleMode, playerNames |-> record.playerNames,
             playerHandicaps |-> record.playerHandicaps, holeCount |-> record.holeCount,
             grossTotal |-> record.grossTotal, teamHandicap |-> record.teamHandicap,
             netScore |-> record.netScore, pointsTotal |-> record.pointsTotal,
             rank |-> record.rank, holeScores |-> record.holeScores])

IsCurrentEventTeam(t) == t.eventId = CurrentEventId

\* eventTeams of App.tsx: the teams of the current event as rankTeams gets them.
TeamsForEvent(items) ==
    LET teamsForEvent == SelectSeq(items, IsCurrentEventTeam)
    IN  [k \in 1..Len(teamsForEvent) |->
            [id |-> teamsForEvent[k].id, scrambleMode |-> teamsForEvent[k].scrambleMode,
             netScore |-> teamsForEvent[k].netScore,
             pointsTotal |-> teamsForEvent[k].pointsTotal,
             grossTotal |-> teamsForEvent[k].grossTotal,
             teamHandicap |-> teamsForEvent[k].teamHandicap]]

\* The loop of handleSubmitAll after card b.i has settled: the next card
\* starts uploading, or the loop ends and the batch counts as a success when no
\* card failed.
AfterCard(b) ==
    IF b.i < Len(b.cards)
    THEN [b EXCEPT !.i = b.i + 1, !.cards[b.i + 1].status = "uploading"]
    ELSE [b EXCEPT !.i = b.i + 1, !.uploading = FALSE,
                   !.uploadSuccess = (b.errorCount = 0)]

\* The catch leaving the loop: the card is marked and no further card starts.
CardFailedEndsLoop(b, message) ==
    [b EXCEPT !.cards[b.i].status = "error",
              !.cards[b.i].message = message,
              !.errorCount = b.errorCount + 1,
              !.i = Len(b.cards) + 1, !.uploading = FALSE, !.uploadSuccess = FALSE]

\* The catch of the loop body: the card is marked with the error's message.
CardFailed(b, message) ==
    AfterCard([b EXCEPT !.cards[b.i].status = "error",
                        !.cards[b.i].message = message,
                        !.errorCount = b.errorCount + 1])

CardCompleted(b) ==
    AfterCard([b EXCEPT !.cards[b.i].status = "completed",
                        !.cards[b.i].message = "Successfully processed",
                        !.successCount = b.successCount + 1])

\* The log after card `card` settled in batch b (already advanced): the error
\* rethrown by processUploadedScorecard if any, then the first call of the
\* next card's processUploadedScorecard.
LogAfterCard(log, card, b, threw) ==
    LET l1 == IF threw THEN Append1(log, Called(b.submits, card, "throw")) ELSE log
    IN  IF b.i <= Len(b.cards)
        THEN Append1(l1, Called(b.submits, b.i, "uploadImageToStorage"))
        ELSE l1

PcAfterCard(b) == IF b.i <= Len(b.cards) THEN "awaitUpload" ELSE "submitted"

InitUpload ==
    /\ IdleOCR
    /\ IdleScoring
    /\ IdleRanking
    /\ IdleHole
    /\ IdleName
    /\ \E k \in 0..MaxCards, m \in ScrambleModes :
         \E texts \in [1..k -> CardMenu] :
            batch = [cards |-> [c \in 1..k |->
                                  [lines |-> texts[c], status |-> "pending", message |-> ""]],
                     i |-> 0, submits |-> 0, successCount |-> 0, errorCount |-> 0,
                     uploading |-> FALSE, uploadSuccess |-> FALSE, scrambleMode |-> m]
    /\ callLog = << >>
    /\ allTeams \in {<< >>, <<OtherEventTeam>>}
    /\ pc = "ready"

\* The cards processUploadedScorecard was called for so far.
Processed(log) == Len(SelectSeq(log, LAMBDA e : e.call = "uploadImageToStorage"))

\* The Submit button can be clicked before the first run and again after a
\* run that left its cards on the page: the button is rendered while there are
\* cards and no success message, and enabled while nothing is uploading.
CanSubmit ==
    \/ pc = "ready"
    \/ /\ pc = "submitted"
       /\ Len(batch.cards) > 0
       /\ ~batch.uploading
       /\ ~batch.uploadSuccess

\* handleSubmitAll up to its first await: without cards it alerts and returns,
\* otherwise the loop starts over all cards and the first card starts
\* uploading.
HandleSubmitAll ==
    /\ CanSubmit
    /\ Processed(callLog) + Len(batch.cards) <= MaxProcessed
    /\ IF Len(batch.cards) = 0
       THEN /\ pc' = "submitted"
            /\ UNCHANGED <<batch, callLog>>
       ELSE /\ batch' = [batch EXCEPT !.uploading = TRUE, !.i = 1,
                                      !.submits = batch.submits + 1,
                                      !.successCount = 0, !.errorCount = 0,
                                      !.cards[1].status = "uploading"]
            /\ callLog' = Append1(callLog,
                                  Called(batch'.submits, 1, "uploadImageToStorage"))
            /\ pc' = "awaitUpload"
    /\ UNCHANGED <<allTeams, nameVars, holeVars, ocrVars, scoreVars, rankVars>>

\* uploadImageToStorage resolves: extractScorecardData is called.
UploadResolves ==
    /\ pc = "awaitUpload"
    /\ callLog' = Append1(callLog, Called(batch.submits, batch.i, "extractScorecardData"))
    /\ pc' = "awaitOCR"
    /\ UNCHANGED <<batch, allTeams, nameVars, holeVars, ocrVars, scoreVars, rankVars>>

\* uploadImageToStorage rejects: the error is rethrown and the card fails.
UploadRejects ==
    /\ pc = "awaitUpload"
    /\ batch' = CardFailed(batch, "Upload failed")
    /\ callLog' = LogAfterCard(callLog, batch.i, batch', TRUE)
    /\ pc' = PcAfterCard(batch')
    /\ UNCHANGED <<allTeams, nameVars, holeVars, ocrVars, scoreVars, rankVars>>

\* extractScorecardData resolves with the interpretation of the card's text:
\* without players the handler throws, otherwise it scores the team and calls
\* onTeamCreated.
OcrResolves ==
    /\ pc = "awaitOCR"
    /\ lines' = batch.cards[batch.i].lines
    /\ annotations' = << >>
    /\ ocrVariant' = "lines"
    /\ detectedHoles' = inferHoleCount(lines')
    /\ ocrResult' = parseScorecard(lines', detectedHoles')
    /\ IF NoPlayersDetected(ocrResult')
       THEN /\ batch' = CardFailed(batch, "No players detected in scorecard")
            /\ callLog' = LogAfterCard(callLog, batch.i, batch', TRUE)
            /\ pc' = PcAfterCard(batch')
            /\ UNCHANGED scoreVars
       ELSE /\ teamData' = TeamDataOf(ocrResult', batch.scrambleMode)
            /\ scoringResult' = calculateTeamScore(teamData')
            /\ callLog' = callLog \o <<Called(batch.submits, batch.i, "calculateTeamScore"),
                                       Called(batch.submits, batch.i, "onTeamCreated")>>
            /\ pc' = "awaitCreate"
            /\ UNCHANGED batch
    /\ UNCHANGED <<allTeams, nameVars, holeVars, rankVars>>

\* extractScorecardData rejects (no project id, a failed request).
OcrRejects ==
    /\ pc = "awaitOCR"
    /\ batch' = CardFailed(batch, "OCR request failed")
    /\ callLog' = LogAfterCard(callLog, batch.i, batch', TRUE)
    /\ pc' = PcAfterCard(batch')
    /\ UNCHANGED <<allTeams, nameVars, holeVars, ocrVars, scoreVars, rankVars>>

\* onTeamCreated resolves: the team is stored and the card is completed.
TeamCreatedResolves ==
    /\ pc = "awaitCreate"
    /\ allTeams' = createTeam(allTeams,
                              TeamRecordOf(CurrentEventId, ocrResult,
                                           batch.scrambleMode, scoringResult))
    /\ batch' = CardCompleted(batch)
    /\ callLog' = LogAfterCard(callLog, batch.i, batch', FALSE)
    /\ pc' = PcAfterCard(batch')
    /\ UNCHANGED <<nameVars, holeVars, ocrVars, scoreVars, rankVars>>

\* onTeamCreated rejects: nothing is stored and the card fails.
TeamCreatedRejects ==
    /\ pc = "awaitCreate"
    /\ batch' = CardFailed(batch, "Create failed")
    /\ callLog' = LogAfterCard(callLog, batch.i, batch', TRUE)
    /\ pc' = PcAfterCard(batch')
    /\ UNCHANGED <<allTeams, nameVars, holeVars, ocrVars, scoreVars, rankVars>>

\* The timer of a batch without errors: the cards are cleared.
UploadCompleteTimer ==
    /\ pc = "submitted"
    /\ batch.uploadSuccess
    /\ batch' = [batch EXCEPT !.cards = << >>, !.uploadSuccess = FALSE]
    /\ pc' = "cleared"
    /\ UNCHANGED <<callLog, allTeams, nameVars, holeVars, ocrVars, scoreVars, rankVars>>

\* A render of App after allTeams changed: the eventTeams memo calls rankTeams
\* on the stored teams of the current event.
RenderEventTeams ==
    /\ teams /= TeamsForEvent(allTeams)
    /\ teams' = TeamsForEvent(allTeams)
    /\ rankings' = rankTeams(teams')
    /\ UNCHANGED <<tieResult, pc, uploadVars, nameVars, holeVars, ocrVars, scoreVars>>

NextUpload ==
    \/ HandleSubmitAll
    \/ UploadResolves
    \/ UploadRejects
    \/ OcrResolves
    \/ OcrRejects
    \/ TeamCreatedResolves
    \/ TeamCreatedRejects
    \/ UploadCompleteTimer
    \/ RenderEventTeams

SpecUpload == InitUpload /\ [][NextUpload]_vars

----------------------------------------------------------------------------
(* Properties of the interpreters, checked under SpecOCR *)

Extracted == pc = "extractScorecardData"

\* The number of gross-score tokens (2..12) on the lines after line s.
ScoreTokensAfter(s) ==
    SumSeq([i \in 1..(Len(lines) - s) |->
               Len(SelectSeq(MatchNums(lines[s + i]), IsGrossScore))])

\* C1: padding invariant.  In every result an interpreter returns (the
\* line-based parseScorecard, the bounding-box parser and its text fallback)
\* there is one score sequence per player and the length of each equals
\* detectedHoleCount, however many score tokens the text held.
C1_PaddingInvariant ==
    Extracted =>
        /\ Len(ocrResult.holeScores) = Len(ocrResult.playerNames)
        /\ \A i \in 1..Len(ocrResult.holeScores) :
              Len(ocrResult.holeScores[i]) = ocrResult.detectedHoleCount

\* The line-based interpreter has returned a player of a 9-hole card whose
\* block held ten score tokens, cut down to nine.
C1_Witness ==
    /\ Extracted
    /\ ocrVariant = "lines"
    /\ ocrResult.detectedHoleCount = 9
    /\ Len(ocrResult.playerNames) = 1
    /\ ScoreTokensAfter(2) = 10
    /\ ocrResult.holeScores[1] = <<4, 5, 3, 4, 5, 6, 4, 3, 5>>

\* The rows the detector scans: the lines of the text, or the grouped rows of
\* the annotations; each as the numbers the detector reads on it.
ScannedNumbers ==
    IF ocrVariant = "boxes"
    THEN LET rows == groupByRows(annotations, RowTolerance)
         IN  [r \in 1..Len(rows) |-> SelectSeq(MatchNums(RowTokens(rows[r])), IsHoleNumber)]
    ELSE [r \in 1..Len(lines) |-> MatchNums(lines[r])]

\* A qualifying row: at least 6 numeric tokens.
Qualifies(r) == Len(ScannedNumbers[r]) >= 6

Detecting == Extracted /\ ocrVariant \in {"lines", "boxes"}

\* C2: the hole count the detector returns is one of 9, 13, 16 and 18, and is
\* 18 when no row qualifies.
C2_HoleCountCanonical ==
    Detecting =>
        /\ detectedHoles \in {9, 13, 16, 18}
        /\ (\A r \in 1..Len(ScannedNumbers) : ~Qualifies(r)) => detectedHoles = 18

\* C3 as stated: if some qualifying row has maximum exactly 18 the detector
\* returns 18, whatever the rows scanned before it suggested.
C3_CanonicalPreference ==
    Detecting =>
        ((\E r \in 1..Len(ScannedNumbers) :
              Qualifies(r) /\ MaxOf(ScannedNumbers[r]) = 18)
          => detectedHoles = 18)

\* A row that ends the scan: in inferHoleCount a qualifying row whose maximum
\* is canonical, in detectHoleCount a qualifying row whose maximum is in 9..18.
EndsScan(r) ==
    /\ Qualifies(r)
    /\ IF ocrVariant = "boxes"
       THEN MaxOf(ScannedNumbers[r]) \in 9..18
       ELSE MaxOf(ScannedNumbers[r]) \in {9, 13, 16, 18}

\* C3 amended: if a qualifying row has maximum exactly 18 and no row scanned
\* before it ends the scan, the detector returns 18.
C3_FirstDecisiveRow ==
    Detecting =>
        \A r \in 1..Len(ScannedNumbers) :
            (/\ Qualifies(r) /\ MaxOf(ScannedNumbers[r]) = 18
             /\ \A q \in 1..(r - 1) : ~EndsScan(q))
            => detectedHoles = 18

\* inferHoleCount has returned 18 for a header of 18 that follows a row which
\* holds a 16 but does not qualify, and for one that follows a qualifying row
\* with the non-canonical maximum 12.
C3_Witness ==
    /\ Extracted
    /\ ocrVariant = "lines"
    /\ Len(lines) = 3
    /\ ~Qualifies(1) /\ ScannedNumbers[1] = <<14, 15, 16>>
    /\ Qualifies(2) /\ MaxOf(ScannedNumbers[2]) = 12
    /\ Qualifies(3) /\ MaxOf(ScannedNumbers[3]) = 18
    /\ detectedHoles = 18

\* C14: zero extraction.  Whenever an interpreter recovers no player it
\* returns a result with empty playerNames, playerHandicaps and holeScores,
\* detectedHoleCount 0 and confidence 0.2.
C14_ZeroExtraction ==
    (Extracted /\ Len(ocrResult.playerNames) = 0) =>
        /\ ocrResult.playerHandicaps = << >>
        /\ ocrResult.holeScores = << >>
        /\ ocrResult.detectedHoleCount = 0
        /\ ocrResult.confidence = 20

\* C16: every handicap of a returned result is an integer in 0..54.
C16_HandicapRange ==
    Extracted =>
        \A p \in 1..Len(ocrResult.playerHandicaps) :
            ocrResult.playerHandicaps[p] \in 0..MaxHandicap

\* C17: deduplication.  The player names of a returned result are pairwise
\* distinct.
C17_DistinctNames ==
    Extracted =>
        \A p, q \in 1..Len(ocrResult.playerNames) :
            p /= q => ocrResult.playerNames[p] /= ocrResult.playerNames[q]

\* The lines of the text that hold a Name marker.
NameMarkerLines == { i \in 1..Len(lines) : HasKeyword(lines[i], {"name"}) }

\* The cleaned name the line-based interpreter recovers at the marker of line i.
CleanedNameAt(i) ==
    LET m    == inlineMatch(lines[i])
        last == IF Len(lines) < i + 4 THEN Len(lines) ELSE i + 4
    IN  cleanName(IF m.matched /\ m.name /= << >>
                  THEN m.name
                  ELSE NamePartsBelow(lines, i + 1, last, << >>))

\* C18: unrecovered name placeholder.  A player anchor (a Name marker, a player
\* row) whose cleaned name is empty still gives a player, named "PLAYER"; no
\* anchor is dropped because its name is missing.
C18_PlayerPlaceholder ==
    /\ (Extracted /\ ocrVariant = "lines") =>
          \A i \in NameMarkerLines :
              CleanedNameAt(i) = << >>
                => \E p \in 1..Len(ocrResult.playerNames) :
                      ocrResult.playerNames[p] = <<"PLAYER">>
    /\ (Extracted /\ ocrVariant = "fallback") =>
          Len(ocrResult.playerNames) = Cardinality(NameMarkerLines)
    /\ (Extracted /\ ocrVariant = "boxes") =>
          Len(ocrResult.playerNames)
            = Len(findPlayerRows(groupByRows(annotations, RowTolerance)))

\* Reference cards with k players, with or without recovered scores.
ReferencePlayerLines ==
    << <<Word("Name"), Word("SMITH")>>,
       <<Num(15), Word("Name"), Word("Jones")>>,
       <<Word("Name"), Word("Jones"), Word("SMITH")>> >>

ReferenceText(k, withScores) ==
    SubSeq(ReferencePlayerLines, 1, k) \o (IF withScores THEN <<TenScores>> ELSE << >>)

ReferencePage(k, withScores) ==
    PageAnnotations([r \in 1..k |-> IF withScores /\ r = 1
                                    THEN <<Word("SMITH"), Num(12)>> \o TenScores
                                    ELSE <<Word("Name")>>],
                    [r \in 1..k |-> 30], 0, 1)

\* The confidence the interpreter of the state returns for a reference card.
ReferenceConfidence(k, withScores) ==
    IF ocrVariant = "boxes"
    THEN LET anns == ReferencePage(k, withScores)
         IN  parseScorecardWithBoundingBoxes(
                 anns, detectHoleCount(groupByRows(anns, RowTolerance))).confidence
    ELSE IF ocrVariant = "fallback"
    THEN parseScorecardFallback(ReferenceText(k, withScores)).confidence
    ELSE LET text == ReferenceText(k, withScores)
         IN  parseScorecard(text, inferHoleCount(text)).confidence

CanonicalRow(r) == Qualifies(r) /\ MaxOf(ScannedNumbers[r]) \in CanonicalHoleCounts

\* A qualifying row whose maximum is in 9..18 without being canonical.
FallbackRow(r) ==
    /\ Qualifies(r)
    /\ MaxOf(ScannedNumbers[r]) \notin CanonicalHoleCounts
    /\ MaxOf(ScannedNumbers[r]) >= 9
    /\ MaxOf(ScannedNumbers[r]) <= 18

\* C22: a fallback row does not end the scan: when some row is canonical the
\* detector returns the maximum of the first canonical row, and only without
\* a canonical row does it return the maximum of a fallback row, or 18 when
\* there is no fallback row either.
C22_FallbackPolicy ==
    Detecting =>
        LET rows == 1..Len(ScannedNumbers)
        IN  /\ \A r \in rows :
                  (CanonicalRow(r) /\ \A q \in 1..(r - 1) : ~CanonicalRow(q))
                     => detectedHoles = MaxOf(ScannedNumbers[r])
            /\ (\A r \in rows : ~CanonicalRow(r))
                  => \/ \E r \in rows :
                          FallbackRow(r) /\ detectedHoles = MaxOf(ScannedNumbers[r])
                     \/ (\A r \in rows : ~FallbackRow(r)) /\ detectedHoles = 18

\* The same of the line-based interpreter alone.
C22_FallbackPolicyLines == ocrVariant = "lines" => C22_FallbackPolicy

\* The players the line-based interpreter recorded, with their anchor lines.
Anchors == FindPlayersFrom(lines, 1, << >>)

\* The line after the block of the line-based interpreter's player p.
BlockEnd(p) == IF p < Len(Anchors) THEN Anchors[p + 1].lineIndex ELSE Len(lines) + 1

RECURSIVE TokensOfLines(_, _)
\* The numbers from 2 to 12 on the lines from..to that carry no label the
\* score extraction skips, in reading order.
TokensOfLines(from, to) ==
    IF from > to
    THEN << >>
    ELSE (IF HasKeyword(lines[from], ScoreSkipKeywords)
          THEN << >>
          ELSE SelectSeq(MatchNums(lines[from]), LAMBDA n : n >= 2 /\ n <= 12))
         \o TokensOfLines(from + 1, to)

\* The in-range numeric tokens of the block of player p: of the lines between
\* the player's anchor and the next one, or of the player's row.
BlockScoreTokens(p) ==
    IF ocrVariant = "lines"
    THEN TokensOfLines(Anchors[p].lineIndex + 1, BlockEnd(p) - 1)
    ELSE SelectSeq(MatchNums(RowTokens(
                       findPlayerRows(groupByRows(annotations, RowTolerance))[p])),
                   LAMBDA n : n >= 2 /\ n <= 12)

\* The number of scores recovered for player p: the scores before the first 0.
Recovered(p) ==
    LET scores == ocrResult.holeScores[p]
    IN  IF \A h \in 1..Len(scores) : scores[h] /= 0
        THEN Len(scores)
        ELSE (CHOOSE h \in 1..Len(scores) :
                 scores[h] = 0 /\ \A g \in 1..(h - 1) : scores[g] /= 0) - 1

FirstN(s, n) == IF Len(s) > n THEN SubSeq(s, 1, n) ELSE s

\* C24: in the line-based interpreter the recorded players' anchor lines are
\* Name lines in strictly increasing order, and the scores of the player
\* anchored at line s are those of the lines strictly after s and strictly
\* before the next recorded anchor (the end of the text for the last player),
\* so the blocks of two players share no line.
C24_ScoreBlockBoundary ==
    (Extracted /\ ocrVariant = "lines") =>
        /\ Len(ocrResult.holeScores) = Len(Anchors)
        /\ \A p \in 1..Len(Anchors) :
              /\ Anchors[p].lineIndex \in 1..Len(lines)
              /\ HasKeyword(lines[Anchors[p].lineIndex], {"name"})
              /\ Anchors[p].lineIndex < BlockEnd(p)
              /\ ocrResult.holeScores[p] =
                    PadScores(FirstN(TokensOfLines(Anchors[p].lineIndex + 1, BlockEnd(p) - 1),
                                     ocrResult.detectedHoleCount),
                              ocrResult.detectedHoleCount)
        /\ \A p, q \in 1..Len(Anchors) :
              p < q => (Anchors[p].lineIndex + 1)..(BlockEnd(p) - 1)
                          \cap (Anchors[q].lineIndex + 1)..(BlockEnd(q) - 1) = {}

\* Two players were recorded at lines 1 and 2 and the scores of line 3 went to
\* the second player only.
C24_Witness ==
    /\ Extracted
    /\ ocrVariant = "lines"
    /\ Len(lines) = 3
    /\ Len(Anchors) = 2
    /\ Anchors[1].lineIndex = 1
    /\ Anchors[2].lineIndex = 2
    /\ TokensOfLines(3, 3) = <<4, 5, 3, 4, 5, 6, 4, 3, 5, 4>>
    /\ \A h \in 1..Len(ocrResult.holeScores[1]) : ocrResult.holeScores[1][h] = 0
    /\ ocrResult.holeScores[2][1] = 4

\* The last line of the forward window of the anchor at line i.
WindowEnd(i) == IF Len(lines) < i + 8 THEN Len(lines) ELSE i + 8

\* C25: in the line-based interpreter the handicap of a recorded player is the
\* number beside an Hcap / cap label of the anchor's window when there is
\* one, even if a number stands before Name; without any label it is the
\* number before Name when there is one.
C25_HandicapPreference ==
    (Extracted /\ ocrVariant = "lines") =>
        \A p \in 1..Len(Anchors) :
            LET i       == Anchors[p].lineIndex
                label   == HandicapPass1(lines, i, WindowEnd(i))
                beside  == HandicapPass2(lines, i, WindowEnd(i))
                nameNum == HandicapPass3(lines, i, WindowEnd(i))
            IN  /\ label /= << >> => ocrResult.playerHandicaps[p] = label[1]
                /\ (label = << >> /\ beside = << >> /\ nameNum /= << >>)
                      => ocrResult.playerHandicaps[p] = nameNum[1]

\* The rows groupByRows returns for the annotations of the page.
GroupedRows == groupByRows(annotations, RowTolerance)

RECURSIVE Flatten(_)
\* The tokens of the rows, row after row.
Flatten(rows) == IF rows = << >> THEN << >> ELSE Head(rows) \o Flatten(Tail(rows))

\* How often the annotation a occurs in the sequence s.
Occurrences(s, a) == Cardinality({i \in 1..Len(s) : s[i] = a})

\* C26: groupByRows puts every token into exactly one row (the sizes of the
\* rows sum to the number of tokens and every token occurs in the rows as
\* often as in the input), returns no empty row, orders the rows from top to
\* bottom, and returns no rows for no tokens.
C26_RowPartition ==
    LET rows == GroupedRows
        all  == Flatten(rows)
    IN  /\ Len(all) = Len(annotations)
        /\ SumSeq([r \in 1..Len(rows) |-> Len(rows[r])]) = Len(annotations)
        /\ \A i \in 1..Len(annotations) :
              Occurrences(all, annotations[i]) = Occurrences(annotations, annotations[i])
        /\ \A r \in 1..Len(rows) : Len(rows[r]) >= 1
        /\ \A r \in 1..(Len(rows) - 1) :
              \A i \in 1..Len(rows[r]), j \in 1..Len(rows[r + 1]) :
                  rows[r][i].y < rows[r + 1][j].y
        /\ annotations = << >> => rows = << >>

\* The bounding-box interpreter has grouped a page into two rows of more than
\* one token each, the tokens of a row not all at the same height.
C26_Witness ==
    /\ Extracted
    /\ ocrVariant = "boxes"
    /\ Len(GroupedRows) = 2
    /\ Len(GroupedRows[1]) > 1
    /\ Len(GroupedRows[2]) > 1
    /\ \E i, j \in 1..Len(GroupedRows[1]) : GroupedRows[1][i].y /= GroupedRows[1][j].y

\* The text with every line outside the forward window of the anchor at line
\* i blanked.
WindowOnly(i) ==
    [j \in 1..Len(lines) |-> IF j >= i /\ j <= WindowEnd(i) THEN lines[j] ELSE << >>]

\* C27: the handicap findHandicapNearLine found for a recorded Name anchor at
\* line i is the one it finds when the lines before i and after i+8 are
\* blank: no line outside the window influences it.
C27_HandicapForwardWindow ==
    (Extracted /\ ocrVariant = "lines") =>
        \A p \in 1..Len(Anchors) :
            LET i == Anchors[p].lineIndex
            IN  inlineMatch(lines[i]).handicap = << >>
                   => ocrResult.playerHandicaps[p] = findHandicapNearLine(WindowOnly(i), i)

----------------------------------------------------------------------------
(* Properties of the ranking engine, checked under SpecRank *)

Ranked == pc = "rankTeams"

\* The ranks the returned entries give to the team with this id.
RanksOfId(id) == { rankings[k].rank : k \in { n \in 1..Len(rankings) : rankings[n].id = id } }

RankOfId(id) == CHOOSE r \in RanksOfId(id) : TRUE

TeamIndexes(mode) == { i \in 1..Len(teams) : teams[i].scrambleMode = mode }

\* The ranks rankTeams gives to the teams of one format.
GroupRanks(mode) == { RankOfId(teams[i].id) : i \in TeamIndexes(mode) }

\* The primary metric of a team, oriented so that smaller is better.
PrimaryKey(t) ==
    IF t.scrambleMode = "straight" THEN t.netScore[1] ELSE 0 - t.pointsTotal[1]

SamePrimary(a, b) ==
    /\ a.scrambleMode = b.scrambleMode
    /\ PrimaryKey(a) = PrimaryKey(b)

\* The entries rankTeams returns for the teams of one format alone.
AloneRanks(mode) ==
    rankTeams(SelectSeq(teams, LAMBDA t : t.scrambleMode = mode))

\* C4: disjoint ranking groups.  rankTeams returns exactly one entry per input
\* team; the N straight teams get exactly the ranks 1..N and the M champagne
\* teams exactly the ranks 1..M; and the rank of every team is the rank it
\* gets when rankTeams is given the teams of its own format only.
C4_DisjointRankingGroups ==
    Ranked =>
        /\ Len(rankings) = Len(teams)
        /\ \A i \in 1..Len(teams) :
              Cardinality({ k \in 1..Len(rankings) : rankings[k].id = teams[i].id }) = 1
        /\ \A mode \in ScrambleModes :
              /\ GroupRanks(mode) = 1..Cardinality(TeamIndexes(mode))
              /\ \A k \in 1..Len(AloneRanks(mode)) :
                    RankOfId(AloneRanks(mode)[k].id) = AloneRanks(mode)[k].rank

\* A mixed event, two teams of each format, has been ranked.
C4_Witness ==
    /\ Ranked
    /\ Cardinality(TeamIndexes("straight")) = 2
    /\ Cardinality(TeamIndexes("champagne")) = 2
    /\ teams[1].scrambleMode = "champagne"
    /\ GroupRanks("straight") = {1, 2}
    /\ GroupRanks("champagne") = {1, 2}

\* C5: ranking respects the primary metric.  Of two straight teams the one with
\* the lower net score has the smaller rank; of two champagne teams the one
\* with the higher points total has the smaller rank.
C5_PrimaryMetricOrder ==
    Ranked =>
        \A i, j \in 1..Len(teams) :
            /\ (/\ IsStraight(teams[i]) /\ IsStraight(teams[j])
                /\ teams[i].netScore[1] < teams[j].netScore[1])
               => RankOfId(teams[i].id) < RankOfId(teams[j].id)
            /\ (/\ IsChampagne(teams[i]) /\ IsChampagne(teams[j])
                /\ teams[i].pointsTotal[1] > teams[j].pointsTotal[1])
               => RankOfId(teams[i].id) < RankOfId(teams[j].id)

\* Teams stored in the opposite order have been ranked: a straight team with
\* the lower net score after one with the higher, and a champagne team with
\* the higher points total after one with the lower.
C5_Witness ==
    /\ Ranked
    /\ \E i, j \in 1..Len(teams) :
          /\ i < j
          /\ IsStraight(teams[i]) /\ IsStraight(teams[j])
          /\ teams[j].netScore[1] < teams[i].netScore[1]
          /\ RankOfId(teams[j].id) < RankOfId(teams[i].id)
    /\ \E i, j \in 1..Len(teams) :
          /\ i < j
          /\ IsChampagne(teams[i]) /\ IsChampagne(teams[j])
          /\ teams[j].pointsTotal[1] > teams[i].pointsTotal[1]
          /\ RankOfId(teams[j].id) < RankOfId(teams[i].id)

\* C6: tie-break in ranking.  Of two teams of the same format with equal
\* primary metric the one with the lower gross total has the smaller rank, and
\* with equal gross totals the one with the lower team handicap has it.
C6_TieBreakOrder ==
    Ranked =>
        \A i, j \in 1..Len(teams) :
            SamePrimary(teams[i], teams[j]) =>
                /\ teams[i].grossTotal < teams[j].grossTotal
                   => RankOfId(teams[i].id) < RankOfId(teams[j].id)
                /\ (/\ teams[i].grossTotal = teams[j].grossTotal
                    /\ teams[i].teamHandicap < teams[j].teamHandicap)
                   => RankOfId(teams[i].id) < RankOfId(teams[j].id)

\* Both tie-breaks have decided a rank against the stored order: a primary tie
\* decided by the gross total, and one with equal gross totals decided by the
\* team handicap.
C6_Witness ==
    /\ Ranked
    /\ \E i, j \in 1..Len(teams) :
          /\ i < j
          /\ SamePrimary(teams[i], teams[j])
          /\ teams[j].grossTotal < teams[i].grossTotal
          /\ RankOfId(teams[j].id) < RankOfId(teams[i].id)
    /\ \E i, j \in 1..Len(teams) :
          /\ i < j
          /\ SamePrimary(teams[i], teams[j])
          /\ teams[j].grossTotal = teams[i].grossTotal
          /\ teams[j].teamHandicap < teams[i].teamHandicap
          /\ RankOfId(teams[j].id) < RankOfId(teams[i].id)

FullTie(a, b) ==
    /\ SamePrimary(a, b)
    /\ a.grossTotal = b.grossTotal
    /\ a.teamHandicap = b.teamHandicap

\* C7: shared position on a full tie.  Two teams of the same format that are
\* equal on the primary metric, the gross total and the team handicap have the
\* same rank in the output of rankTeams.
C7_SharedPositionOnFullTie ==
    Ranked =>
        \A i, j \in 1..Len(teams) :
            FullTie(teams[i], teams[j])
              => RankOfId(teams[i].id) = RankOfId(teams[j].id)

\* C8: tie-break totality.  breakTie(A, B) = -breakTie(B, A) whenever the gross
\* totals or the team handicaps differ, and breakTie(A, B) = 0 exactly when
\* both are equal.
C8_BreakTieAntisymmetric ==
    pc = "breakTie" =>
        \A i, j \in 1..Len(teams) :
            /\ (\/ teams[i].grossTotal /= teams[j].grossTotal
                \/ teams[i].teamHandicap /= teams[j].teamHandicap)
               => tieResult[i][j] = 0 - tieResult[j][i]
            /\ tieResult[i][j] = 0
               <=> (/\ teams[i].grossTotal = teams[j].grossTotal
                    /\ teams[i].teamHandicap = teams[j].teamHandicap)

\* breakTie has decided one pair by the gross total, one by the team handicap,
\* and has returned 0 for two different teams that are equal on both.
C8_Witness ==
    /\ pc = "breakTie"
    /\ \E i, j \in 1..Len(teams) :
          teams[i].grossTotal < teams[j].grossTotal
            /\ tieResult[i][j] = -1 /\ tieResult[j][i] = 1
    /\ \E i, j \in 1..Len(teams) :
          teams[i].grossTotal = teams[j].grossTotal
            /\ teams[i].teamHandicap < teams[j].teamHandicap
            /\ tieResult[i][j] = -1 /\ tieResult[j][i] = 1
    /\ \E i, j \in 1..Len(teams) :
          i /= j /\ tieResult[i][j] = 0 /\ tieResult[j][i] = 0

----------------------------------------------------------------------------
(* Properties of the scoring engine, checked under SpecScore *)

Scored == pc = "calculateTeamScore"

HandicapsOf(td) == [i \in 1..Len(td.players) |-> td.players[i].handicap]

\* C9: calculateTeamHandicap returns the sum of the handicaps times 0.10
\* rounded to the nearest integer: ten times the result is within 5 of the sum,
\* every half goes the same way (up), and the handicaps [8, 12, 6] give 3.
C9_TeamHandicapRounded ==
    (Scored /\ ~scoringResult.threw) =>
        LET sum == SumSeq(HandicapsOf(teamData))
            h   == scoringResult.teamHandicap
        IN  /\ \A p \in 1..Len(teamData.players) : teamData.players[p].handicap \in 0..54
            /\ 10 * h - sum \in -5..5
            /\ sum % 10 = 5 => 10 * h = sum + 5
            /\ HandicapsOf(teamData) = <<8, 12, 6>> => h = 3

\* The team with handicaps [8, 12, 6] has been scored with team handicap 3.
C9_Witness ==
    /\ Scored
    /\ HandicapsOf(teamData) = <<8, 12, 6>>
    /\ scoringResult.teamHandicap = 3

\* C10: straight-format result.  For a team with at least one player the gross
\* total is the sum of the first player's per-hole scores, whatever the other
\* players scored, and the net score is the gross total less the team
\* handicap; handicaps [8, 12, 6] and a first-player total of 75 give gross 75,
\* team handicap 3 and net 72.
C10_StraightResult ==
    (Scored /\ teamData.scrambleMode = "straight" /\ Len(teamData.players) >= 1) =>
        /\ ~scoringResult.threw
        /\ scoringResult.grossTotal = SumSeq(teamData.players[1].holeScores)
        /\ scoringResult.netScore
             = Some(scoringResult.grossTotal - scoringResult.teamHandicap)
        /\ (/\ HandicapsOf(teamData) = <<8, 12, 6>>
            /\ SumSeq(teamData.players[1].holeScores) = 75)
           => /\ scoringResult.grossTotal = 75
              /\ scoringResult.teamHandicap = 3
              /\ scoringResult.netScore = Some(72)

\* The example team has been scored in the straight format, the two other
\* players having scores of their own.
C10_Witness ==
    /\ Scored
    /\ teamData.scrambleMode = "straight"
    /\ HandicapsOf(teamData) = <<8, 12, 6>>
    /\ SumSeq(teamData.players[1].holeScores) = 75
    /\ SumSeq(teamData.players[2].holeScores) > 0
    /\ SumSeq(teamData.players[3].holeScores) > 0
    /\ scoringResult.grossTotal = 75
    /\ scoringResult.netScore = Some(72)

\* The Stableford points of player p on hole h of the scored team.
PointsOn(p, h) == PlayerPoints(teamData.players[p], h, teamData.holeCount)

\* The best points on hole h: points some player has and no player exceeds.
IsHoleMaximum(m, h) ==
    /\ \E p \in 1..Len(teamData.players) : PointsOn(p, h) = m
    /\ \A p \in 1..Len(teamData.players) : PointsOn(p, h) <= m

ScoredChampagne ==
    Scored /\ teamData.scrambleMode = "champagne" /\ Len(teamData.players) >= 1

\* C11: points-format best ball.  The team points of every hole in
\* 1..holeCount are the maximum of the players' Stableford points on that
\* hole, and pointsTotal is the sum of these maxima; a handicap-5 player with
\* gross 4 and a handicap-15 player with gross 5 on hole 1 of 18 (stroke index
\* 10) both score 2 and the hole's team points are 2.
C11_BestBall ==
    ScoredChampagne =>
        /\ ~scoringResult.threw
        /\ Len(scoringResult.breakdown) = teamData.holeCount
        /\ \A h \in 1..teamData.holeCount : IsHoleMaximum(scoringResult.breakdown[h], h)
        /\ scoringResult.pointsTotal = Some(SumSeq(scoringResult.breakdown))
        /\ (/\ teamData.holeCount = 18
            /\ Len(teamData.players) = 2
            /\ teamData.players[1].handicap = 5 /\ teamData.players[1].holeScores[1] = 4
            /\ teamData.players[2].handicap = 15 /\ teamData.players[2].holeScores[1] = 5)
           => /\ PointsOn(1, 1) = 2 /\ PointsOn(2, 1) = 2
              /\ scoringResult.breakdown[1] = 2

\* The example pair has been scored, and on hole 2 the second player's points
\* are the team's, above the first player's.
C11_Witness ==
    /\ ScoredChampagne
    /\ teamData.holeCount = 18
    /\ Len(teamData.players) = 2
    /\ teamData.players[1].handicap = 5 /\ teamData.players[1].holeScores[1] = 4
    /\ teamData.players[2].handicap = 15 /\ teamData.players[2].holeScores[1] = 5
    /\ scoringResult.breakdown[1] = 2
    /\ PointsOn(2, 2) > PointsOn(1, 2)
    /\ scoringResult.breakdown[2] = PointsOn(2, 2)

\* C28: in the points format a score of 0 earns a player 0 points on that
\* hole, and a team whose players' scores are all 0 has pointsTotal 0.
C28_UnrecoveredScoresEarnNothing ==
    ScoredChampagne =>
        /\ \A p \in 1..Len(teamData.players) :
              \A h \in 1..teamData.holeCount :
                  (h <= Len(teamData.players[p].holeScores)
                     /\ teamData.players[p].holeScores[h] = 0)
                    => PointsOn(p, h) = 0
        /\ (\A p \in 1..Len(teamData.players) :
               \A h \in 1..Len(teamData.players[p].holeScores) :
                   teamData.players[p].holeScores[h] = 0)
              => scoringResult.pointsTotal = Some(0)

----------------------------------------------------------------------------
(* Properties of the per-hole functions, checked under SpecHole *)

StrokesAllocated == pc = "getHoleHandicapStrokes"

\* The stroke-index value of the hole of the call.
StrokeIndexOfCall == getStrokeIndex(holeArgs.holeNumber, holeArgs.totalHoles)

\* C12: handicap stroke allocation.  A player whose handicap is at least
\* SI + 18 is allocated 2 strokes, one whose handicap is at least SI and below
\* SI + 18 is allocated 1 stroke, and any other player 0 strokes.
C12_StrokeAllocation ==
    StrokesAllocated =>
        holeResult = Some(IF holeArgs.playerHandicap >= StrokeIndexOfCall + 18 THEN 2
                          ELSE IF holeArgs.playerHandicap >= StrokeIndexOfCall THEN 1
                          ELSE 0)

StablefordConverted == pc = "netScoreToStableford"

\* C13: Stableford conversion against par 4.  A net score of par + 2 or worse
\* gives 0 points, par + 1 gives 1, par 2, par - 1 3, par - 2 4, par - 3 5 and
\* par - 4 6, and the result is an integer in 0..6 for every integer net score.
C13_StablefordTable ==
    StablefordConverted =>
        LET n == holeArgs.netScore
            r == holeResult
        IN  /\ Par = 4
            /\ n >= Par + 2 => r = Some(0)
            /\ n = Par + 1 => r = Some(1)
            /\ n = Par     => r = Some(2)
            /\ n = Par - 1 => r = Some(3)
            /\ n = Par - 2 => r = Some(4)
            /\ n = Par - 3 => r = Some(5)
            /\ n = Par - 4 => r = Some(6)
            /\ \E v \in 0..6 : r = Some(v)

\* A net score below par - 4 has been converted.
C13_Witness ==
    /\ StablefordConverted
    /\ holeArgs.netScore < Par - 4
    /\ holeResult = Some(0)

----------------------------------------------------------------------------
(* Properties of the name cleanups, checked under SpecName *)

NameCleaned == pc \in {"cleaned", "cleanedAgain"}

AnchorKeywords == {"name", "hcap", "cap", "heap"}

\* A name of words in upper case, no digits, no anchor keyword.
UpperCaseNoAnchor(raw) ==
    /\ raw /= << >>
    /\ \A i \in 1..Len(raw) :
          /\ raw[i].k = "word"
          /\ ToUpperCase(raw[i].w) = raw[i].w
          /\ Keyword(raw[i].w) \notin AnchorKeywords

\* The same, for cleanName without a layout keyword either.
FixedPointName(call, raw) ==
    /\ UpperCaseNoAnchor(raw)
    /\ call = "cleanName" => ~layoutRegex(raw)

WordsOf(raw) == [i \in 1..Len(raw) |-> raw[i].w]

\* C21 as stated: a cleanup returns a name of upper-case words without digits
\* and without anchor keywords unchanged, and cleaning up what a cleanup
\* returned returns it unchanged.
C21_CleanedNameUnchanged ==
    /\ (NameCleaned /\ UpperCaseNoAnchor(nameArgs.raw))
           => nameResult[1] = WordsOf(nameArgs.raw)
    /\ pc = "cleanedAgain" => nameResult[2] = nameResult[1]

\* C21, amended: a cleanup returns a non-empty name of upper-case words without
\* digits, without anchor keywords and, for cleanName, without layout keywords
\* unchanged, and
\* cleaning up what a cleanup returned returns it unchanged whenever the first
\* cleanup returned such a name.
C21_CleanNameFixedPoint ==
    /\ (NameCleaned /\ FixedPointName(nameArgs.call, nameArgs.raw))
           => nameResult[1] = WordsOf(nameArgs.raw)
    /\ (pc = "cleanedAgain" /\ FixedPointName(nameArgs.call, NameTokens(nameResult[1])))
           => nameResult[2] = nameResult[1]

\* cleanName returned SMITH JONES for the clean name SMITH JONES, and again
\* for what it returned.
C21_Witness ==
    /\ pc = "cleanedAgain"
    /\ nameArgs = [call |-> "cleanName", raw |-> <<Word("SMITH"), Word("JONES")>>]
    /\ nameResult = <<(<<"SMITH", "JONES">>), (<<"SMITH", "JONES">>)>>

----------------------------------------------------------------------------
(* Properties of the batch upload, checked under SpecUpload *)

RECURSIVE CallsOfCard(_, _)
\* The names of the logged calls of one card's processUploadedScorecard.
CallsOfCard(log, card) ==
    IF log = << >>
    THEN << >>
    ELSE (IF log[1].card = card THEN <<log[1].call>> ELSE << >>)
           \o CallsOfCard(Tail(log), card)

\* The names of the logged calls processUploadedScorecard made for one card in
\* one invocation of handleSubmitAll.
CallsOfRun(log, run, card) ==
    LET own == SelectSeq(log, LAMBDA e : e.run = run /\ e.card = card)
    IN  [k \in 1..Len(own) |-> own[k].call]

\* The calls of a run in which nothing failed, in their order.
FullRun ==
    <<"uploadImageToStorage", "extractScorecardData", "calculateTeamScore", "onTeamCreated">>

\* processUploadedScorecard returned without an error for the card in that
\* invocation of handleSubmitAll.
Succeeded(run, card) ==
    /\ CallsOfRun(callLog, run, card) = FullRun
    /\ ~(pc = "awaitCreate" /\ batch.submits = run /\ batch.i = card)

\* The players the interpreter recovers from the text of card c.
PlayersOnCard(c) ==
    Len(parseScorecard(batch.cards[c].lines,
                       inferHoleCount(batch.cards[c].lines)).playerNames)

\* C15: in processUploadedScorecard the scoring engine and onTeamCreated are
\* each called at most once, in the order upload, OCR, scoring, team creation,
\* and only after the upload and the OCR succeeded with at least one player; if
\* the upload or the OCR fails or no player was extracted, the scoring engine
\* is not called, no team is created and the error reaches the caller.
C15_UploadOcrScoreCreate ==
    /\ \A r \in 1..(MaxProcessed + 1), c \in 1..(MaxCards + 1) :
          LET calls == CallsOfRun(callLog, r, c)
          IN  \/ \E n \in 0..4 : calls = SubSeq(FullRun, 1, n)
              \/ \E n \in {1, 2, 4} : calls = Append1(SubSeq(FullRun, 1, n), "throw")
    /\ \A c \in 1..Len(batch.cards) :
          LET calls == CallsOfRun(callLog, batch.submits, c)
          IN  /\ (\E k \in 1..Len(calls) : calls[k] \in {"calculateTeamScore", "onTeamCreated"})
                 => PlayersOnCard(c) >= 1
              /\ (c < batch.i /\ batch.cards[c].message
                    \in {"Upload failed", "OCR request failed", "No players detected in scorecard"})
                 => /\ Len(calls) <= 3
                    /\ calls[Len(calls)] = "throw"
                    /\ batch.cards[c].status = "error"
              /\ (c < batch.i /\ batch.cards[c].status = "error" /\ PlayersOnCard(c) = 0)
                 => Len(calls) <= 3
    /\ Cardinality({c \in 1..(MaxCards + 1) : Succeeded(batch.submits, c)}) = batch.successCount
    /\ Len(SelectSeq(allTeams, IsCurrentEventTeam))
          = Cardinality({rc \in (1..(MaxProcessed + 1)) \X (1..(MaxCards + 1)) :
                            Succeeded(rc[1], rc[2])})

\* A batch of two cards has been processed: the first went through upload, OCR,
\* scoring and team creation, the second had no legible player and failed
\* after the OCR without scoring.
C15_Witness ==
    /\ pc = "submitted"
    /\ Len(batch.cards) = 2
    /\ CallsOfCard(callLog, 1) = FullRun
    /\ batch.cards[1].status = "completed"
    /\ CallsOfCard(callLog, 2) = <<"uploadImageToStorage", "extractScorecardData", "throw">>
    /\ batch.cards[2].message = "No players detected in scorecard"
    /\ Len(SelectSeq(allTeams, IsCurrentEventTeam)) = 1

\* The cards of the entries of one invocation of handleSubmitAll, in the
\* order of the log.
CardsOfRun(log, run) ==
    LET own == SelectSeq(log, LAMBDA e : e.run = run)
    IN  [k \in 1..Len(own) |-> own[k].card]

\* An invocation of handleSubmitAll on at least one card has ended.
RunEnded == pc \in {"submitted", "cleared"} /\ batch.submits >= 1

\* C29: the cards of a run of handleSubmitAll are processed one at a time in
\* list order, a failure of one card does not keep the following cards from
\* being processed, when the run has ended every card is completed or in
\* error, completed plus failed cards are all cards, uploading is false, and
\* onUploadComplete is due or called only if no card failed.
C29_BatchFailureIsolation ==
    /\ \A r \in 1..batch.submits :
          LET cs == CardsOfRun(callLog, r)
          IN  /\ \A k \in 1..(Len(cs) - 1) : cs[k] <= cs[k + 1] /\ cs[k + 1] <= cs[k] + 1
              /\ cs /= << >> => cs[1] = 1
    /\ (pc = "submitted" /\ batch.submits >= 1) =>
          /\ \A c \in 1..Len(batch.cards) :
                /\ batch.cards[c].status \in {"completed", "error"}
                /\ CallsOfRun(callLog, batch.submits, c) /= << >>
                /\ batch.cards[c].status = "completed" <=> Succeeded(batch.submits, c)
          /\ batch.successCount + batch.errorCount = Len(batch.cards)
          /\ batch.errorCount
                = Cardinality({c \in 1..Len(batch.cards) : batch.cards[c].status = "error"})
          /\ ~batch.uploading
          /\ batch.uploadSuccess <=> batch.errorCount = 0
    /\ pc = "cleared" => (batch.errorCount = 0 /\ ~batch.uploading)

\* A run over two cards has ended: the first card failed at the upload and the
\* second was processed after it and completed.
C29_Witness ==
    /\ pc = "submitted"
    /\ batch.submits = 1
    /\ Len(batch.cards) = 2
    /\ batch.cards[1].status = "error"
    /\ batch.cards[1].message = "Upload failed"
    /\ batch.cards[2].status = "completed"
    /\ batch.successCount = 1
    /\ batch.errorCount = 1
    /\ ~batch.uploading

\* C30: over the invocations of handleSubmitAll on the same cards every card
\* has at most one successful processUploadedScorecard call, a card that is
\* already completed is not processed again, and the event has at most one
\* created team per card.
C30_NoDuplicateTeams ==
    /\ \A c \in 1..(MaxCards + 1) :
          /\ Cardinality({r \in 1..batch.submits : Succeeded(r, c)}) <= 1
          /\ \A r, q \in 1..batch.submits :
                (r < q /\ Succeeded(r, c)) => CallsOfRun(callLog, q, c) = << >>
    /\ Len(batch.cards) > 0
          => Len(SelectSeq(allTeams, IsCurrentEventTeam)) <= Len(batch.cards)

\* C20: ranking is not streaming.  A rank ordering of the event's teams is
\* computed only after every card of the batch has been processed; rankTeams is
\* never applied to a part of the batch's teams.
C20_RankingAfterWholeBatch ==
    teams /= << >> => pc \in {"submitted", "cleared"}

====
